---------------------------- MODULE Spec2Model ----------------------------
(***************************************************************************)
(* A model of the dmg_asm Game Boy assembler: the Expression / Descriptor  *)
(* value layer, the InstructionPointer singleton, the Application image    *)
(* store, the Mnemonic resolver over the instruction tree, and the         *)
(* AssemblerUtils token driver, the Section and Symbol stores, the         *)
(* Expression operators and the StorageParser.                             *)
(*                                                                         *)
(* Text is modelled as a sequence of one-character strings, so parsing and *)
(* formatting are computed character by character, as the code does.       *)
(***************************************************************************)
EXTENDS Integers, Sequences, FiniteSets, TLC

VARIABLES
    ipPointer,      \* InstructionPointer._pointer (an Expression)
    ipSectionBase,  \* InstructionPointer._section_base (an Expression)
    ipCall,         \* the InstructionPointer operation last called, with its argument
    ipResult,       \* what that call returned, or the exception it raised
    ipOps,          \* number of InstructionPointer operations called so far
    appData,        \* Application._app_data: the list of _Entry(address, code)
    appAddress,     \* Application._address, with the Python type it has
    appCall,        \* the Application operation last called, with its argument
    appResult,      \* what that call returned, or the exception it raised
    appOps,         \* number of Application operations called so far
    lr35902,        \* InstructionSet().lr35902: the opcode tree of the singleton
    labels,         \* Labels()._labels: the list of Label(name, value)
    symbols,        \* Symbols()._symbols: the dict of Symbol by cleaned name
    mnTokens,       \* Mnemonic.token_group of the Mnemonic object kept
    mnDetail,       \* Mnemonic.instruction_detail of that object
    mnCall,         \* the resolver or store operation last called
    mnResult,       \* what that call returned, or the exception it raised
    mnOps,          \* number of resolver and store operations called so far
    sections,       \* Sections()._store: the list of Sections pushed
    drvLine,        \* the token group of the line the driver was given last
    drvLast,        \* the token group of the call of process_tokens made last
    drvGroup,       \* the token group of the call of process_tokens still to be made
    drvDepth,       \* number of calls of process_tokens made for the line
    drvHandled,     \* the handlers those calls dispatched to, in order
    drvResult,      \* what the line's processing returned or raised, or "pending"
    drvOps,         \* number of lines given to the driver so far
    secObj,         \* the Section constructed last
    secCall,        \* the Section or Sections operation last called
    secResult,      \* what that call returned, or the exception it raised
    secOps,         \* number of Section and Sections operations called so far
    symObj,         \* the Symbol constructed last
    symCall,        \* the name and the flag the constructor was called with last
    symResult,      \* None, or the exception the constructor raised
    symOps,         \* number of Symbols constructed so far
    exCall,         \* the Expression operator applied last, with its two operands
    exResult,       \* the Expression that operator returned, or the exception raised
    exOps,          \* number of Expression operators applied so far
    stCall,         \* the StorageParser method called last, with its arguments
    stData,         \* StorageParser._data, once a method has assigned it
    stResult,       \* what that call returned, or the exception it raised
    stOps           \* number of StorageParser methods called so far

ipVars == <<ipPointer, ipSectionBase, ipCall, ipResult, ipOps>>

appVars == <<appData, appAddress, appCall, appResult, appOps>>

mnVars == <<lr35902, labels, symbols, mnTokens, mnDetail, mnCall, mnResult, mnOps>>

drvVars == <<sections, drvLine, drvLast, drvGroup, drvDepth, drvHandled, drvResult, drvOps>>

valueVars == <<exCall, exResult, exOps, stCall, stData, stResult, stOps>>

storeVars == <<secObj, secCall, secResult, secOps, symObj, symCall, symResult, symOps, valueVars>>

vars == <<ipVars, appVars, mnVars, drvVars, storeVars>>

nonIPVars == <<appVars, mnVars, drvVars, storeVars>>

nonAppVars == <<ipVars, mnVars, drvVars, storeVars>>

nonMnVars == <<ipVars, appVars, drvVars, storeVars>>

(***************************************************************************)
(* core/constants.py                                                       *)
(***************************************************************************)
MAX_16BIT_VALUE == 65535

MAX_8BIT_VALUE == 255

NUMERIC_BASES == {2, 8, 10, 16}

(***************************************************************************)
(* Characters and Python's string/int primitives.                          *)
(***************************************************************************)
Digits == <<"0", "1", "2", "3", "4", "5", "6", "7", "8", "9">>

HexDigitsUpper == Digits \o <<"A", "B", "C", "D", "E", "F">>

ascii_uppercase == <<"A", "B", "C", "D", "E", "F", "G", "H", "I", "J", "K", "L", "M", "N", "O", "P", "Q", "R", "S", "T", "U", "V", "W", "X", "Y", "Z">>

ascii_lowercase == <<"a", "b", "c", "d", "e", "f", "g", "h", "i", "j", "k", "l", "m", "n", "o", "p", "q", "r", "s", "t", "u", "v", "w", "x", "y", "z">>

AsciiLetters ==
    {ascii_uppercase[i] : i \in 1..26} \cup {ascii_lowercase[i] : i \in 1..26}

\* The value of a character as a digit; a character that is no digit of any
\* base used here gets a value above every base.
DigitValue(c) ==
    CASE c = "0" -> 0 [] c = "1" -> 1 [] c = "2" -> 2 [] c = "3" -> 3
      [] c = "4" -> 4 [] c = "5" -> 5 [] c = "6" -> 6 [] c = "7" -> 7
      [] c = "8" -> 8 [] c = "9" -> 9
      [] c \in {"a", "A"} -> 10 [] c \in {"b", "B"} -> 11
      [] c \in {"c", "C"} -> 12 [] c \in {"d", "D"} -> 13
      [] c \in {"e", "E"} -> 14 [] c \in {"f", "F"} -> 15
      [] OTHER -> 16 + 1

\* int(word, base), for a word already checked against the base's charset.
RECURSIVE PyInt(_, _)
PyInt(word, base) ==
    IF Len(word) = 0 THEN 0
    ELSE PyInt(SubSeq(word, 1, Len(word) - 1), base) * base
         + DigitValue(word[Len(word)])

RECURSIVE DigitsOf(_, _)
DigitsOf(n, base) ==
    IF n < base THEN <<HexDigitsUpper[n + 1]>>
    ELSE DigitsOf(n \div base, base) \o <<HexDigitsUpper[(n % base) + 1]>>

RECURSIVE ZeroPad(_, _)
ZeroPad(s, width) == IF Len(s) >= width THEN s ELSE ZeroPad(<<"0">> \o s, width)

\* f"{n:0<width>d}" and f"{n:0<width>X}": the sign takes one column of the width.
PyFormat(n, width, base) ==
    IF n < 0 THEN <<"-">> \o ZeroPad(DigitsOf(-n, base), width - 1)
    ELSE ZeroPad(DigitsOf(n, base), width)

\* The element of a one-element set. The({e : v \in {x}}) reads "e where
\* v is x": e with v standing for the value of x, computed once.
The(S) == CHOOSE r \in S : TRUE

StartsWith(s, p) == Len(s) >= Len(p) /\ SubSeq(s, 1, Len(p)) = p

EndsWith(s, p) == Len(s) >= Len(p) /\ SubSeq(s, Len(s) - Len(p) + 1, Len(s)) = p

\* rel >> k
ShiftRight(n, k) == n \div (2 ^ k)

\* a ^ b for non-negative integers, bit by bit.
RECURSIVE BitXor(_, _)
BitXor(a, b) ==
    IF a <= 0 /\ b <= 0 THEN 0
    ELSE (((a % 2) + (b % 2)) % 2) + 2 * BitXor(a \div 2, b \div 2)

(***************************************************************************)
(* core/descriptor.py                                                      *)
(***************************************************************************)
BASE_STR == -1

BASE_LAB == 0

BASE_BIN == 2

BASE_BYTE == 8

BASE_DEC == 10

BASE_WORD == 16

MinMax(lo, hi) == [min |-> lo, max |-> hi]

BaseDescriptor(chars, limits, base) ==
    [chars |-> chars, limits |-> limits, base |-> base]

DEC_DSC_wide ==
    BaseDescriptor(MinMax(1, 8), MinMax(0, 1000000), BASE_DEC)

DEC_DSC ==
    BaseDescriptor(MinMax(1, 6), MinMax(0, MAX_16BIT_VALUE + 1), BASE_DEC)

HEX_DSC ==
    BaseDescriptor(MinMax(2, 3), MinMax(0, MAX_8BIT_VALUE + 1), BASE_WORD)

HEX16_DSC ==
    BaseDescriptor(MinMax(2, 5), MinMax(0, MAX_16BIT_VALUE + 1), BASE_WORD)

BIN_DSC ==
    BaseDescriptor(MinMax(2, 9), MinMax(0, MAX_8BIT_VALUE + 1), BASE_BIN)

OCT_DSC ==
    BaseDescriptor(MinMax(1, 7), MinMax(0, MAX_16BIT_VALUE + 1), BASE_BYTE)

LBL_DSC ==
    BaseDescriptor(MinMax(1, 33), MinMax(0, 0), BASE_LAB)

STR_DSC ==
    BaseDescriptor(MinMax(1, 256), MinMax(0, 0), BASE_STR)

\* BaseDescriptor.bases: the characters a base allows.
InCharset(c, base) ==
    CASE base \in NUMERIC_BASES -> DigitValue(c) < base
      [] base = BASE_LAB -> c \in AsciiLetters \/ DigitValue(c) < 10 \/ c = "_"
      [] OTHER -> c \notin {"'", "\""}

\* BaseDescriptor.limits: a string or label descriptor answers with its
\* character-count range.
limits(dsc) == IF dsc.base \in {BASE_STR, BASE_LAB} THEN dsc.chars ELSE dsc.limits

\* BaseDescriptor.validate: "" when the value is valid, else the exception.
validate(dsc, value) ==
    IF \E i \in 1..Len(value) : ~InCharset(value[i], dsc.base)
    THEN "DescriptorRadixDigitValueError"
    ELSE IF ~(Len(value) >= dsc.chars.min /\ Len(value) < dsc.chars.max)
    THEN "DescriptorMinMaxLengthError"
    ELSE IF dsc.base \in NUMERIC_BASES
    THEN The({
           IF dec_val >= dsc.limits.min /\ dec_val < dsc.limits.max
           THEN "" ELSE "DescriptorMinMaxValueError"
           : dec_val \in {PyInt(value, dsc.base)}})
    ELSE IF value[1] \notin AsciiLetters
    THEN "DescriptorRadixDigitValueError"
    ELSE ""

(***************************************************************************)
(* core/expression.py                                                      *)
(***************************************************************************)
_prefixes ==
    << <<"0", "x">>, <<"0">>, <<"$", "$">>, <<"$">>, <<"&">>, <<"%">>,
       <<"'">>, <<"\"">> >>

NoText == <<>>

\* An Expression that could not be built: the exception raised instead.
Raised(err) ==
    [ok |-> FALSE, err |-> err, prefix |-> NoText, word |-> NoText,
     descriptor |-> STR_DSC, fmt |-> ""]

Built(prefix, word, dsc, fmt) ==
    [ok |-> TRUE, err |-> "", prefix |-> prefix, word |-> word,
     descriptor |-> dsc, fmt |-> fmt]

\* _Validator.get_elements: prefix, word and suffix of the text; hasPrefix
\* and hasSuffix are FALSE where the code has None.
get_elements(expr) ==
    The({
      IF keys = {}
      THEN [hasPrefix |-> FALSE, hasSuffix |-> FALSE, prefix |-> NoText,
            word |-> NoText]
      ELSE The({
        The({
          IF prefix \in {<<"'">>, <<"\"">>}
          THEN IF EndsWith(expr, prefix)
               THEN [hasPrefix |-> TRUE, hasSuffix |-> TRUE, prefix |-> prefix,
                     word |-> IF EndsWith(rest, prefix)
                              THEN SubSeq(rest, 1, Len(rest) - Len(prefix))
                              ELSE rest]
               ELSE [hasPrefix |-> TRUE, hasSuffix |-> FALSE, prefix |-> prefix,
                     word |-> NoText]
          ELSE [hasPrefix |-> TRUE, hasSuffix |-> TRUE, prefix |-> prefix,
                word |-> rest]
          : rest \in {SubSeq(expr, Len(prefix) + 1, Len(expr))}})
        : prefix \in {_prefixes[CHOOSE i \in keys : \A j \in keys : i <= j]}})
      : keys \in {{i \in 1..Len(_prefixes) : StartsWith(expr, _prefixes[i])}}})

\* _Validator.get_expr_components: the descriptor the prefix and the word's
\* length dictate.
get_expr_components(expr) ==
    The({
      IF Len(expr) < 3 THEN Raised("ExpressionSyntaxError")
      ELSE IF ~pwords.hasPrefix THEN Raised("ExpressionSyntaxError")
      ELSE IF ~pwords.hasSuffix THEN Raised("ExpressionSyntaxError")
      ELSE CASE pwords.prefix \in {<<"$">>, <<"0", "x">>} ->
                  IF Len(pwords.word) > 2
                  THEN Built(pwords.prefix, pwords.word, HEX16_DSC, "04X")
                  ELSE Built(pwords.prefix, pwords.word, HEX_DSC, "02X")
             [] pwords.prefix = <<"$", "$">> ->
                  Built(pwords.prefix, pwords.word, HEX16_DSC, "04X")
             [] pwords.prefix = <<"0">> ->
                  Built(pwords.prefix, pwords.word, DEC_DSC, "02d")
             [] pwords.prefix \in {<<"'">>, <<"\"">>} ->
                  Built(pwords.prefix, pwords.word, STR_DSC, ".255s")
             [] pwords.prefix = <<"%">> ->
                  Built(pwords.prefix, pwords.word, BIN_DSC, "08b")
             [] pwords.prefix = <<"&">> ->
                  Built(pwords.prefix, pwords.word, OCT_DSC, "08o")
             [] OTHER -> Raised("ExpressionSyntaxError")
             : pwords \in {get_elements(expr)}})

\* Expression.__init__ with _Validator.validate: pytype is the Python type
\* of the argument.
Expression(pytype, exp_str) ==
    IF pytype = "NoneType" THEN Raised("ValueError")
    ELSE IF pytype # "str" THEN Raised("TypeError")
    ELSE The({
           IF ~components.ok THEN components
           ELSE IF validate(components.descriptor, components.word) # ""
           THEN Raised("ExpressionDescriptorError")
           ELSE components
           : components \in {get_expr_components(exp_str)}})

\* Expression.integer_value
integer_value(e) ==
    IF e.descriptor.base \in NUMERIC_BASES
    THEN PyInt(e.word, e.descriptor.base)
    ELSE -1

\* Convert(e).to_decimal_int()
to_decimal_int(e) == integer_value(e)

(***************************************************************************)
(* cpu/instruction_pointer.py                                              *)
(***************************************************************************)
MaxIPOps == 3

IPCall(op, isExpr, n, text) == [op |-> op, isExpr |-> isExpr, n |-> n, text |-> text]

\* InstructionPointer.__new__
IPNew ==
    /\ ipPointer = Expression("str", <<"0", "x", "0", "0", "0", "0">>)
    /\ ipSectionBase = Expression("str", <<"0", "x", "0", "0">>)
    /\ ipCall = IPCall("new", FALSE, 0, NoText)
    /\ ipResult = "None"
    /\ ipOps = 0

\* The guard of move_pointer_relative: 65536 > curr >= 0
PointerInRange_tight(curr) == MAX_16BIT_VALUE > curr /\ curr >= 0

PointerInRange(curr) == MAX_16BIT_VALUE + 1 > curr /\ curr >= 0

\* The outcome of move_pointer_relative(val) on the given pointer:
\* the value returned or the exception raised, and the pointer afterwards.
move_pointer_relative(pointer, isInt, val) ==
    IF ~isInt THEN [result |-> "TypeError", pointer |-> pointer]
    ELSE The({
           IF PointerInRange(curr)
           THEN The({
                  IF new.ok THEN [result |-> "True", pointer |-> new]
                  ELSE [result |-> new.err, pointer |-> pointer]
                  : new \in {Expression("str", <<"0">> \o PyFormat(curr, 4, 10))}})
           ELSE [result |-> "ValueError", pointer |-> pointer]
           : curr \in {to_decimal_int(pointer) + val}})

\* The texts callers hand to the InstructionPointer as Expressions.
IPTexts ==
    { <<"$", "1", "2", "3", "4">>, <<"$", "F", "F", "D", "2">>,
      <<"$", "F", "F", "F", "F">>, <<"0", "x", "0", "0", "0", "0">>,
      <<"$", "1", "2">>, <<"0", "6", "5", "5", "3", "5">>,
      <<"0", "7", "0", "0", "0", "0">>, <<"&", "1", "7", "7", "7", "7", "7">>,
      <<"%", "0", "0", "0", "1", "0", "0", "0", "1">>, <<"'", "A", "B", "'">> }

IPDeltas == {4352, -495, 1000, 65535, -65535, 65536, 1, -1, 0}

IPBytes ==
    { <<"$", "F", "B">>, <<"$", "7", "F">>, <<"$", "8", "0">>, <<"$", "0", "0">>,
      <<"%", "1", "1", "1", "1", "1", "0", "1", "1">>, <<"$", "1", "2", "3", "4">>,
      <<"0", "1", "2", "7">> }

\* The caller builds the Expression it hands to the pointer setter; when
\* that raises, the setter is never entered.
SetPointerArgumentRaises ==
    /\ ipOps < MaxIPOps
    /\ \E t \in IPTexts :
       \E value \in {Expression("str", t)} :
          /\ ~value.ok
          /\ ipCall' = IPCall("pointer", FALSE, 0, t)
          /\ ipResult' = value.err
    /\ ipOps' = ipOps + 1
    /\ UNCHANGED <<ipPointer, ipSectionBase>>
    /\ UNCHANGED nonIPVars

\* pointer.setter
SetPointer ==
    /\ ipOps < MaxIPOps
    /\ \E t \in IPTexts :
       \E value \in {Expression("str", t)} :
          /\ value.ok
          /\ ipCall' = IPCall("pointer", TRUE, integer_value(value), t)
          /\ IF limits(value.descriptor).max < MAX_16BIT_VALUE
             THEN ipResult' = "ValueError" /\ ipPointer' = ipPointer
             ELSE \E new \in {Expression("str",
                                <<"0">> \o PyFormat(integer_value(value), 4, 10))} :
                    IF new.ok
                    THEN ipResult' = "None" /\ ipPointer' = new
                    ELSE ipResult' = new.err /\ ipPointer' = ipPointer
    /\ ipOps' = ipOps + 1
    /\ UNCHANGED ipSectionBase
    /\ UNCHANGED nonIPVars

\* move_pointer_relative(val)
MovePointerRelative ==
    /\ ipOps < MaxIPOps
    /\ \E isInt \in BOOLEAN :
       \E val \in IF isInt THEN IPDeltas ELSE {0} :
       \E r \in {move_pointer_relative(ipPointer, isInt, val)} :
          /\ ipCall' = IPCall("move_pointer_relative", ~isInt, val, NoText)
          /\ ipResult' = r.result
          /\ ipPointer' = r.pointer
    /\ ipOps' = ipOps + 1
    /\ UNCHANGED ipSectionBase
    /\ UNCHANGED nonIPVars

\* base_address.setter: Expression(new_value) is handed an Expression, not
\* a str, so it raises before either field is assigned.
SetBaseAddress ==
    /\ ipOps < MaxIPOps
    /\ \/ /\ ipCall' = IPCall("base_address", FALSE, 0, NoText)
          /\ ipResult' = "TypeError"
          /\ UNCHANGED <<ipPointer, ipSectionBase>>
       \/ \E t \in IPTexts :
          \E new_value \in {Expression("str", t)} :
             /\ new_value.ok
             /\ ipCall' = IPCall("base_address", TRUE, integer_value(new_value), t)
             /\ IF limits(new_value.descriptor).max < MAX_16BIT_VALUE
                THEN /\ ipResult' = "ValueError"
                     /\ UNCHANGED <<ipPointer, ipSectionBase>>
                ELSE \E new_base \in {Expression("Expression", t)} :
                       IF new_base.ok
                       THEN /\ ipResult' = "None"
                            /\ ipSectionBase' = new_base
                            /\ ipPointer' = new_base
                       ELSE /\ ipResult' = new_base.err
                            /\ UNCHANGED <<ipPointer, ipSectionBase>>
    /\ ipOps' = ipOps + 1
    /\ UNCHANGED nonIPVars

\* The displacement of a byte read without its sign bit.
displacement_unsigned(rel) == rel

\* The signed displacement move_relative computes from the byte rel.
displacement(rel) ==
    IF ShiftRight(rel, 7) # 0
    THEN (BitXor(rel, MAX_8BIT_VALUE) + 1) * (-1)
    ELSE rel

\* move_relative(relative)
MoveRelative ==
    /\ ipOps < MaxIPOps
    /\ \/ /\ ipCall' = IPCall("move_relative", FALSE, 0, NoText)
          /\ ipResult' = "TypeError"
          /\ ipPointer' = ipPointer
       \/ \E t \in IPBytes :
          \E relative \in {Expression("str", t)} :
             /\ relative.ok
             /\ ipCall' = IPCall("move_relative", TRUE, integer_value(relative), t)
             /\ IF limits(relative.descriptor).max > MAX_8BIT_VALUE + 1
                THEN ipResult' = "ValueError" /\ ipPointer' = ipPointer
                ELSE \E rel \in {to_decimal_int(relative)} :
                     \E r \in {move_pointer_relative(ipPointer, TRUE,
                                                     displacement(rel))} :
                        IF r.result = "True"
                        THEN ipResult' = "True" /\ ipPointer' = r.pointer
                        ELSE ipResult' = "False" /\ ipPointer' = ipPointer
    /\ ipOps' = ipOps + 1
    /\ UNCHANGED ipSectionBase
    /\ UNCHANGED nonIPVars

(***************************************************************************)
(* assembly/application_store.py                                           *)
(***************************************************************************)
MaxAppOps == 4

PyStr(text) == [pytype |-> "str", text |-> text, n |-> 0]

PyInteger(n) == [pytype |-> "int", text |-> NoText, n |-> n]

_Entry(address, code) == [address |-> address, code |-> code]

AppCall(op, isExpr, text, code) ==
    [op |-> op, isExpr |-> isExpr, text |-> text, code |-> code]

\* Application.__new__: _address starts as the str "$0000".
AppNew ==
    /\ appData = <<>>
    /\ appAddress = PyStr(<<"$", "0", "0", "0", "0">>)
    /\ appCall = AppCall("new", FALSE, NoText, <<>>)
    /\ appResult = "None"
    /\ appOps = 0

\* str(x) as an f-string renders it.
PyToStr(x) == IF x.pytype = "str" THEN x.text ELSE PyFormat(x.n, 1, 10)

\* An append_code that leaves the address where it is.
AddressPlus_stays(address, n) ==
    IF address.pytype = "int"
    THEN [result |-> "True", address |-> address]
    ELSE [result |-> "TypeError", address |-> address]

\* self._address += len(code): adding an int to a str raises TypeError.
AddressPlus(address, n) ==
    IF address.pytype = "int"
    THEN [result |-> "True", address |-> PyInteger(address.n + n)]
    ELSE [result |-> "TypeError", address |-> address]

\* Application.create_new_address_entry(address): the outcome, the data and
\* the address afterwards.
create_new_address_entry(data, current, isExpr, address) ==
    IF ~isExpr
    THEN [result |-> "ValueError", data |-> data, address |-> current]
    ELSE IF address.descriptor.base \notin NUMERIC_BASES
    THEN [result |-> "False", data |-> data, address |-> current]
    ELSE [result |-> "True",
          data |-> Append(data, _Entry(<<"$">> \o PyFormat(integer_value(address), 4, 16),
                                       <<>>)),
          address |-> PyInteger(integer_value(address))]

\* Application.append_code(code): the entry is appended or extended before
\* the address is advanced, so it stays when the advance raises.
append_code(data, current, code) ==
    The({
      The({
        [result |-> advanced.result, data |-> stored, address |-> advanced.address]
        : advanced \in {AddressPlus(current, Len(code))}})
      : stored \in {IF Len(data) = 0
                    THEN Append(data, _Entry(<<"0">> \o PyToStr(current), code))
                    ELSE [data EXCEPT ![Len(data)].code = @ \o code]}})

\* The addresses handed to create_new_address_entry.
AppTexts ==
    { <<"$", "0", "1", "0", "0">>, <<"$", "C", "0", "0", "0">>,
      <<"0", "5", "1", "2">>, <<"'", "A", "B", "'">> }

\* The byte runs handed to append_code.
AppCodes == { <<>>, <<0>>, <<118>>, <<195, 0, 2>>, <<224, 32>> }

CreateNewAddressEntry ==
    /\ appOps < MaxAppOps
    /\ \/ \E r \in {create_new_address_entry(appData, appAddress, FALSE, Raised(""))} :
             /\ appCall' = AppCall("create_new_address_entry", FALSE, NoText, <<>>)
             /\ appResult' = r.result
             /\ appData' = r.data
             /\ appAddress' = r.address
       \/ \E t \in AppTexts :
          \E address \in {Expression("str", t)} :
          \E r \in {create_new_address_entry(appData, appAddress, TRUE, address)} :
             /\ address.ok
             /\ appCall' = AppCall("create_new_address_entry", TRUE, t, <<>>)
             /\ appResult' = r.result
             /\ appData' = r.data
             /\ appAddress' = r.address
    /\ appOps' = appOps + 1
    /\ UNCHANGED nonAppVars

AppendCode ==
    /\ appOps < MaxAppOps
    /\ \E code \in AppCodes :
       \E r \in {append_code(appData, appAddress, code)} :
          /\ appCall' = AppCall("append_code", FALSE, NoText, code)
          /\ appResult' = r.result
          /\ appData' = r.data
          /\ appAddress' = r.address
    /\ appOps' = appOps + 1
    /\ UNCHANGED nonAppVars

\* Application.reset
AppReset ==
    /\ appOps < MaxAppOps
    /\ appCall' = AppCall("reset", FALSE, NoText, <<>>)
    /\ appResult' = "None"
    /\ appAddress' = PyInteger(0)
    /\ appData' = <<>>
    /\ appOps' = appOps + 1
    /\ UNCHANGED nonAppVars

(***************************************************************************)
(* Python's str and dict, as the resolver uses them. A dict is the         *)
(* sequence of its <<key, value>> pairs in insertion order.                *)
(***************************************************************************)
LowerChar(c) ==
    IF \E i \in 1..26 : ascii_uppercase[i] = c
    THEN ascii_lowercase[CHOOSE i \in 1..26 : ascii_uppercase[i] = c]
    ELSE c

UpperChar(c) ==
    IF \E i \in 1..26 : ascii_lowercase[i] = c
    THEN ascii_uppercase[CHOOSE i \in 1..26 : ascii_lowercase[i] = c]
    ELSE c

\* s.lower()
Lower(s) == [i \in 1..Len(s) |-> LowerChar(s[i])]

\* s.upper()
Upper(s) == [i \in 1..Len(s) |-> UpperChar(s[i])]

\* The positions at which sub occurs in s.
Occurrences(s, sub) ==
    {i \in 1..(Len(s) - Len(sub) + 1) : SubSeq(s, i, i + Len(sub) - 1) = sub}

\* sub in s
Contains(s, sub) == Occurrences(s, sub) # {}

\* s.replace(old, new), for a non-empty old: every occurrence, left to right.
RECURSIVE Replace(_, _, _)
Replace(s, old, new) ==
    IF Len(old) = 0 \/ Occurrences(s, old) = {} THEN s
    ELSE The({
           SubSeq(s, 1, i - 1) \o new
             \o Replace(SubSeq(s, i + Len(old), Len(s)), old, new)
           : i \in {CHOOSE k \in Occurrences(s, old) :
                      \A j \in Occurrences(s, old) : k <= j}})

\* s.lstrip(chars)
RECURSIVE LStrip(_, _)
LStrip(s, chars) ==
    IF Len(s) > 0 /\ s[1] \in chars THEN LStrip(Tail(s), chars) ELSE s

\* s.rstrip(chars)
RECURSIVE RStrip(_, _)
RStrip(s, chars) ==
    IF Len(s) > 0 /\ s[Len(s)] \in chars
    THEN RStrip(SubSeq(s, 1, Len(s) - 1), chars)
    ELSE s

\* s.strip(chars)
Strip(s, chars) == RStrip(LStrip(s, chars), chars)

\* key in d
DictHas(d, k) == \E i \in 1..Len(d) : d[i][1] = k

\* d[key], for a key that is in d
DictGet(d, k) == d[CHOOSE i \in 1..Len(d) : d[i][1] = k][2]

\* d.get(key, default)
DictGetOr(d, k, default) == IF DictHas(d, k) THEN DictGet(d, k) ELSE default

\* d[key] = value
DictSet(d, k, v) ==
    IF DictHas(d, k)
    THEN [i \in 1..Len(d) |-> IF d[i][1] = k THEN <<k, v>> ELSE d[i]]
    ELSE Append(d, <<k, v>>)

\* d.pop(key, None), as a read that leaves the key in place.
DictPop_keeps(d, k) == d

\* d.pop(key, None): the dict without the key.
DictPop(d, k) == SelectSeq(d, LAMBDA p : p[1] # k)

\* d.update(e)
RECURSIVE DictUpdate(_, _)
DictUpdate(d, e) ==
    IF Len(e) = 0 THEN d
    ELSE DictUpdate(DictSet(d, e[1][1], e[1][2]), Tail(e))

\* The node a path of keys leads to, from the root of a tree of dicts.
RECURSIVE NodeAt(_, _)
NodeAt(tree, path) ==
    IF Len(path) = 0 THEN tree
    ELSE NodeAt(DictGet(tree, Head(path)), Tail(path))

\* The tree with the node at the path replaced.
RECURSIVE SetAt(_, _, _)
SetAt(tree, path, node) ==
    IF Len(path) = 0 THEN node
    ELSE DictSet(tree, Head(path),
                 SetAt(DictGet(tree, Head(path)), Tail(path), node))

(***************************************************************************)
(* Convert (core): the hex text and the code bytes of an Expression.       *)
(***************************************************************************)
\* f'{maxi:b}'
BinaryText(maxi) == PyFormat(maxi, 1, BASE_BIN)

\* Convert(e).to_hex_string(): "$" and the value in upper-case hex, two
\* digits for a value of at most one byte and four digits otherwise.
to_hex_string(e) ==
    The({ <<"$">> \o PyFormat(v, IF v <= MAX_8BIT_VALUE THEN 2 ELSE 4, BASE_WORD)
          : v \in {integer_value(e)}})

\* Convert(e).to_code(): one byte when the descriptor's largest value fits
\* a byte, else two bytes, low byte first.
to_code(e) ==
    The({ IF e.descriptor.limits.max - 1 <= MAX_8BIT_VALUE
          THEN <<v % 256>>
          ELSE <<v % 256, (v \div 256) % 256>>
          : v \in {integer_value(e)}})

(***************************************************************************)
(* tokens: Token and TokenGroup.                                           *)
(***************************************************************************)
\* The data of a token that carries none, and None where an Expression is
\* expected.
NoData == Raised("None")

\* A Token: its type, its text, and the Expression an EXPRESSION token
\* carries as data.
Token(type, value) ==
    [type |-> type, value |-> value,
     data |-> IF type = "EXPRESSION" THEN Expression("str", value) ELSE NoData]

\* TokenGroup.find_first_value: the 1-based index, 0 for None.
find_first_value(tokens, value) ==
    The({ IF \E i \in 1..Len(tokens) : Upper(tokens[i].value) = up
          THEN CHOOSE i \in 1..Len(tokens) :
                 /\ Upper(tokens[i].value) = up
                 /\ \A j \in 1..(i - 1) : Upper(tokens[j].value) # up
          ELSE 0
          : up \in {Upper(value)}})

(***************************************************************************)
(* core/label.py and core/symbol.py: the Label and Symbol stores.          *)
(***************************************************************************)
Label(name, value) == [name |-> name, value |-> value]

\* Labels.find: the 1-based index of the label found, 0 for None.
LabelsFind(store, name_to_find) ==
    IF Len(name_to_find) > 0
       /\ \E i \in 1..Len(store) : Lower(store[i].name) = Lower(name_to_find)
    THEN CHOOSE i \in 1..Len(store) :
           /\ Lower(store[i].name) = Lower(name_to_find)
           /\ \A j \in 1..(i - 1) : Lower(store[j].name) # Lower(name_to_find)
    ELSE 0

\* A push that appends whatever the store holds.
LabelsPush_appends(store, new_label, replace) == Append(store, new_label)

\* Labels.push: the store afterwards.
LabelsPush(store, new_label, replace) ==
    The({ IF existing # 0
          THEN IF replace
               THEN [store EXCEPT ![existing].value = new_label.value]
               ELSE store
          ELSE Append(store, new_label)
          : existing \in {LabelsFind(store, new_label.name)}})

\* A Symbol: its name as written and the address it stands for.
Symbol(name, base_address) == [name |-> name, base_address |-> base_address]

\* The key of a symbol in the store: upper(clean(name)).
SymbolKey(key) == Upper(RStrip(LStrip(key, {"."}), {":", "."}))

\* Symbols.find: TRUE when a symbol is stored under the name.
SymbolsHas(store, key) == Len(key) > 0 /\ DictHas(store, SymbolKey(key))

\* Symbols.find, for a name that is stored.
SymbolsFind(store, key) == DictGet(store, SymbolKey(key))

\* Symbols.add
SymbolsAdd(store, symbol) == DictSet(store, SymbolKey(symbol.name), symbol)

(***************************************************************************)
(* cpu/instruction_set.py: the opcode catalog, the tree built from it and  *)
(* the detail of an opcode.                                                *)
(***************************************************************************)
\* One entry of the catalog; an operand the entry does not have is NoText.
CatalogEntry(addr, mnemonic, operand1, operand2, length) ==
    <<addr, [addr |-> addr, mnemonic |-> mnemonic, operand1 |-> operand1,
             operand2 |-> operand2, length |-> length]>>

\* LR35902Data().json: the entries of the catalog the model keeps, in the
\* order of their opcodes.
LR35902Data ==
    << CatalogEntry(<<"$", "0", "0">>, <<"n", "o", "p">>, NoText, NoText, 1),
       CatalogEntry(<<"$", "1", "8">>, <<"j", "r">>, <<"r", "8">>, NoText, 2),
       CatalogEntry(<<"$", "2", "0">>, <<"j", "r">>, <<"n", "z">>, <<"r", "8">>, 2),
       CatalogEntry(<<"$", "2", "1">>, <<"l", "d">>, <<"h", "l">>, <<"d", "1", "6">>, 3),
       CatalogEntry(<<"$", "3", "6">>, <<"l", "d">>, <<"(", "h", "l", ")">>, <<"d", "8">>, 2),
       CatalogEntry(<<"$", "3", "e">>, <<"l", "d">>, <<"a">>, <<"d", "8">>, 2),
       CatalogEntry(<<"$", "4", "1">>, <<"l", "d">>, <<"b">>, <<"c">>, 1),
       CatalogEntry(<<"$", "7", "6">>, <<"h", "a", "l", "t">>, NoText, NoText, 1),
       CatalogEntry(<<"$", "c", "2">>, <<"j", "p">>, <<"n", "z">>, <<"a", "1", "6">>, 3),
       CatalogEntry(<<"$", "c", "3">>, <<"j", "p">>, <<"a", "1", "6">>, NoText, 3),
       CatalogEntry(<<"$", "e", "0">>, <<"l", "d", "h">>, <<"(", "a", "8", ")">>, <<"a">>, 2),
       CatalogEntry(<<"$", "e", "9">>, <<"j", "p">>, <<"(", "h", "l", ")">>, NoText, 1),
       CatalogEntry(<<"$", "e", "a">>, <<"l", "d">>, <<"(", "a", "1", "6", ")">>, <<"a">>, 3),
       CatalogEntry(<<"$", "f", "0">>, <<"l", "d", "h">>, <<"a">>, <<"(", "a", "8", ")">>, 2),
       CatalogEntry(<<"$", "f", "8">>, <<"l", "d">>, <<"h", "l">>, <<"s", "p", "+", "r", "8">>, 2),
       CatalogEntry(<<"$", "f", "a">>, <<"l", "d">>, <<"a">>, <<"(", "a", "1", "6", ")">>, 3) >>

\* The key of a node that ends an instruction; its value is the opcode.
Bang == <<"!">>

\* The key under which the resolver notes a rewritten operand in a node.
LabelValueKey == <<"_", "_", "l", "a", "b", "e", "l", "_", "v", "a", "l", "u", "e">>

\* The body of the loop of _gen_lr35902_inst: the instructions with one
\* catalog entry added.
_gen_lr35902_entry(instructions, hex_code, node) ==
    IF node.mnemonic = <<"P", "R", "E", "F", "I", "X">> THEN instructions
    ELSE The({
      The({
        The({
          DictSet(instructions, node.mnemonic,
            IF node.operand1 # NoText
            THEN The({
                   IF ~DictHas(existing, node.operand1)
                   THEN DictSet(existing, node.operand1, line_op1)
                   ELSE DictSet(existing, node.operand1,
                          DictUpdate(DictGet(existing, node.operand1), line_op1))
                   : line_op1 \in {IF node.operand2 = NoText THEN term
                                   ELSE << <<node.operand2, term>> >>}})
            ELSE term)
          : existing \in {DictGetOr(instructions, node.mnemonic, <<>>)}})
        : term \in {<< <<Bang, IF expr.ok THEN integer_value(expr) ELSE 0>> >>}})
      : expr \in {Expression("str", hex_code)}})

\* _gen_lr35902_inst: the tree after the first n entries of the catalog.
RECURSIVE _gen_lr35902_inst(_, _)
_gen_lr35902_inst(raw_data, n) ==
    IF n = 0 THEN <<>>
    ELSE The({ _gen_lr35902_entry(instructions, raw_data[n][1], raw_data[n][2])
               : instructions \in {_gen_lr35902_inst(raw_data, n - 1)}})

\* InstructionSet().lr35902 as InstructionSet.__new__ builds it.
BuiltTree == _gen_lr35902_inst(LR35902Data, Len(LR35902Data))

\* InstructionSet.placeholders
placeholders == << <<"a", "8">>, <<"a", "1", "6">>, <<"d", "8">>, <<"d", "1", "6">>, <<"r", "8">> >>

\* A node of the tree, by the path of keys that leads to it; some is FALSE
\* for None.
Node(path) == [some |-> TRUE, path |-> path]

NoNode == [some |-> FALSE, path |-> <<>>]

\* InstructionSet.instruction_from_mnemonic
instruction_from_mnemonic(tree, mnemonic) ==
    IF DictHas(tree, mnemonic) THEN Node(<<mnemonic>>) ELSE NoNode

\* An InstructionDetail; some is FALSE for None.
InstructionDetail(addr, mnemonic, operand1, operand2, length, immediate1, immediate2, code) ==
    [some |-> TRUE, addr |-> addr, mnemonic |-> mnemonic,
     operand1 |-> operand1, operand2 |-> operand2, length |-> length,
     immediate1 |-> immediate1, immediate2 |-> immediate2, code |-> code]

NoDetail ==
    [some |-> FALSE, addr |-> NoData, mnemonic |-> NoText,
     operand1 |-> NoText, operand2 |-> NoText, length |-> 0,
     immediate1 |-> FALSE, immediate2 |-> FALSE, code |-> <<>>]

\* operand in self.placeholders
InPlaceholders(operand) ==
    \E i \in 1..Len(placeholders) : placeholders[i] = operand

\* InstructionSet.instruction_detail_from_byte
instruction_detail_from_byte(byte) ==
    IF DictHas(LR35902Data, byte)
    THEN The({
           InstructionDetail(Expression("str", data.addr), data.mnemonic,
                             data.operand1, data.operand2, data.length,
                             InPlaceholders(data.operand1),
                             InPlaceholders(data.operand2), <<>>)
           : data \in {DictGet(LR35902Data, byte)}})
    ELSE NoDetail

(***************************************************************************)
(* directives/mnemonic.py: _Utils, the walk of the tree along the operands *)
(* of a token group. The tree is handed along, since the walk writes into  *)
(* its nodes; the stores are read where the code reads the singletons.     *)
(***************************************************************************)
\* Expression.has_valid_prefix
has_valid_prefix(expr) == get_elements(expr).hasPrefix

\* The number of bits of the largest value of an Expression's descriptor.
BitsOf(expression) == Len(BinaryText(expression.descriptor.limits.max - 1))

PlaceholderKey(letter, bits) == letter \o PyFormat(bits, 1, BASE_DEC)

\* _Utils.find_matching_placeholders: the texts with the value replaced by
\* each placeholder of its width, or the exception Expression(value) raises.
find_matching_placeholders(text, value) ==
    IF ~has_valid_prefix(value) THEN [err |-> "", result |-> <<>>]
    ELSE The({
      IF ~expr.ok THEN [err |-> expr.err, result |-> <<>>]
      ELSE The({
        [err |-> "",
         result |->
           << Replace(text, value, PlaceholderKey(<<"d">>, bits)),
              Replace(text, value, PlaceholderKey(<<"a">>, bits)) >>
           \o (IF bits = 8 THEN <<Replace(text, value, <<"r", "8">>)>> ELSE <<>>)]
        : bits \in {BitsOf(expr)}})
      : expr \in {Expression("str", value)}})

\* The first key of a node that contains the text, in the order of the
\* node's keys; NoText when no key does.
FirstKeyWith(node, sub) ==
    IF \E i \in 1..Len(node) : Contains(node[i][1], sub)
    THEN node[CHOOSE i \in 1..Len(node) :
                /\ Contains(node[i][1], sub)
                /\ \A j \in 1..(i - 1) : ~Contains(node[j][1], sub)][1]
    ELSE NoText

\* _Utils.data_placeholder_node: the key of the child chosen for the
\* expression, NoText for None.
data_placeholder_node(node, expression) ==
    IF ~expression.ok THEN NoText
    ELSE The({
      IF FirstKeyWith(node, PlaceholderKey(<<"a">>, bits)) # NoText
      THEN FirstKeyWith(node, PlaceholderKey(<<"a">>, bits))
      ELSE IF FirstKeyWith(node, PlaceholderKey(<<"d">>, bits)) # NoText
      THEN FirstKeyWith(node, PlaceholderKey(<<"d">>, bits))
      ELSE FirstKeyWith(node, <<"r", "8">>)
      : bits \in {BitsOf(expression)}})

\* The state of the loop of _Utils.listify.
Listed(err, elements, special, value, plus, in_paren) ==
    [err |-> err, elements |-> elements, special |-> special,
     value |-> value, plus |-> plus, in_paren |-> in_paren]

\* The end of the loop body of listify: the token's text joins the value,
\* which becomes an element unless a parenthesis is open.
listify_emit(st, token) ==
    The({ IF ~st.in_paren
          THEN [st EXCEPT !.elements = Append(@, value), !.value = NoText]
          ELSE [st EXCEPT !.value = value]
          : value \in {st.value \o Lower(token.value)}})

\* The body of the loop of listify for one token.
listify_step(st, token) ==
    IF st.err # "" THEN st
    ELSE IF token.value = <<"(">>
    THEN listify_emit([st EXCEPT !.in_paren = TRUE], token)
    ELSE IF token.value = <<")">>
    THEN listify_emit([st EXCEPT !.in_paren = FALSE], token)
    ELSE IF token.value = <<"+">>
    THEN IF Len(st.elements) = 0 THEN [st EXCEPT !.err = "IndexError"]
         ELSE listify_emit(
                [st EXCEPT !.plus = TRUE,
                           !.value = st.elements[Len(st.elements)],
                           !.elements = SubSeq(@, 1, Len(@) - 1)], token)
    ELSE IF st.plus
    THEN IF Len(st.elements) = 0 THEN [st EXCEPT !.err = "IndexError"]
         ELSE listify_emit(
                [st EXCEPT !.plus = FALSE,
                           !.value = st.elements[Len(st.elements)],
                           !.elements = SubSeq(@, 1, Len(@) - 1),
                           !.special =
                              DictSet(@, st.elements[Len(st.elements)]
                                           \o Lower(token.value),
                                      token.value)], token)
    ELSE listify_emit(st, token)

\* _Utils.listify: the state of its loop after the first n tokens.
RECURSIVE listify_loop(_, _)
listify_loop(token_group, n) ==
    IF n = 0 THEN Listed("", <<>>, <<>>, NoText, FALSE, FALSE)
    ELSE The({ listify_step(st, token_group[n])
               : st \in {listify_loop(token_group, n - 1)}})

\* _Utils.listify: the elements and the special table of a token group.
listify(token_group) == listify_loop(token_group, Len(token_group))

\* What an _assign_if_ function leaves: the child it returns (found is FALSE
\* for None), the tree and the special table afterwards, or an exception.
Assigned(path, tree, special) ==
    [err |-> "", found |-> TRUE, path |-> path, tree |-> tree,
     special |-> special]

NotAssigned(tree, special) ==
    [err |-> "", found |-> FALSE, path |-> <<>>, tree |-> tree,
     special |-> special]

AssignRaised(err, tree, special) ==
    [err |-> err, found |-> FALSE, path |-> <<>>, tree |-> tree,
     special |-> special]

\* The keys among found that are keys of the node, in the order of found.
KeysInNode(found, node) == SelectSeq(found, LAMBDA x : DictHas(node, x))

\* The tree with node[key]["__label_value"] = value, for the node at path.
SetLabelValue(tree, path, key, value) ==
    SetAt(tree, path \o <<key>>,
          DictSet(NodeAt(tree, path \o <<key>>), LabelValueKey, value))

\* _Utils._assign_if_special, from the call of find_matching_placeholders
\* on: operand and to_find as the label lookup left them.
_assign_if_special_match(special, operand, to_find, _label_value, tree, path) ==
    The({
      IF found.err # "" THEN AssignRaised(found.err, tree, special)
      ELSE The({
        IF Len(sus) = 0 THEN NotAssigned(tree, special)
        ELSE IF Len(_label_value) > 0
        THEN Assigned(path \o <<sus[1]>>,
                      SetLabelValue(tree, path, sus[1], _label_value), special)
        ELSE Assigned(path \o <<sus[1]>>, tree, special)
        : sus \in {KeysInNode(found.result, NodeAt(tree, path))}})
      : found \in {find_matching_placeholders(operand, to_find)}})

\* _Utils._assign_if_special
_assign_if_special(special, operand, tree, path) ==
    IF Len(special) > 0 /\ DictHas(special, operand)
    THEN The({
      The({
        IF ~has_valid_prefix(to_find) /\ LabelsFind(labels, to_find) # 0
        THEN The({
          The({
            _assign_if_special_match(popped, replaced, hexi, replaced,
                                     tree, path)
            : replaced \in {Replace(operand, Lower(label.name), hexi)}})
          : hexi \in {to_hex_string(label.value)}})
        ELSE _assign_if_special_match(popped, operand, to_find, NoText,
                                      tree, path)
        : label \in {IF LabelsFind(labels, to_find) # 0
                     THEN labels[LabelsFind(labels, to_find)]
                     ELSE Label(NoText, NoData)}})
      : to_find \in {DictGet(special, operand)},
        popped \in {DictPop(special, operand)}})
    ELSE NotAssigned(tree, special)

\* _Utils._assign_if_exact
_assign_if_exact(special, operand, tree, path) ==
    IF DictHas(NodeAt(tree, path), Lower(operand))
    THEN IF DictHas(NodeAt(tree, path), operand)
         THEN Assigned(path \o <<operand>>, tree, special)
         ELSE AssignRaised("KeyError", tree, special)
    ELSE NotAssigned(tree, special)

\* _Utils._assign_if_expression
_assign_if_expression(tokens, special, operand, tree, path) ==
    The({
      IF has_valid_prefix(plain) /\ find_first_value(tokens, plain) # 0
      THEN The({
        IF key # NoText THEN Assigned(path \o <<key>>, tree, special)
        ELSE NotAssigned(tree, special)
        : key \in {data_placeholder_node(
                     NodeAt(tree, path),
                     tokens[find_first_value(tokens, plain)].data)}})
      ELSE NotAssigned(tree, special)
      : plain \in {Strip(operand, {"(", ")"})}})

\* The common body of _assign_if_label and _assign_if_symbol, once the
\* label or symbol is found: value is its Expression.
_assign_found_value(special, operand, plain, value, tree, path) ==
    The({
      IF key # NoText
      THEN Assigned(path \o <<key>>,
                    SetLabelValue(tree, path, key,
                                  Replace(operand, plain, to_hex_string(value))),
                    special)
      ELSE NotAssigned(tree, special)
      : key \in {data_placeholder_node(NodeAt(tree, path), value)}})

\* _Utils._assign_if_label
_assign_if_label(special, operand, tree, path) ==
    The({
      IF LabelsFind(labels, plain) # 0
      THEN _assign_found_value(special, operand, plain,
                               labels[LabelsFind(labels, plain)].value,
                               tree, path)
      ELSE NotAssigned(tree, special)
      : plain \in {Strip(operand, {"(", ")"})}})

\* _Utils._assign_if_symbol
_assign_if_symbol(special, operand, tree, path) ==
    The({
      IF SymbolsHas(symbols, plain)
      THEN _assign_found_value(special, operand, plain,
                               SymbolsFind(symbols, plain).base_address,
                               tree, path)
      ELSE NotAssigned(tree, special)
      : plain \in {Strip(operand, {"(", ")"})}})

\* _Utils._assignments: the first of the five that returns a node.
_assignments(tokens, special, operand, tree, path) ==
    The({
      IF s.err # "" \/ s.found THEN s
      ELSE The({
        IF e.err # "" \/ e.found THEN e
        ELSE The({
          IF x.found THEN x
          ELSE The({
            IF l.found THEN l
            ELSE _assign_if_symbol(s.special, operand, tree, path)
            : l \in {_assign_if_label(s.special, operand, tree, path)}})
          : x \in {_assign_if_expression(tokens, s.special, operand, tree, path)}})
        : e \in {_assign_if_exact(s.special, operand, tree, path)}})
      : s \in {_assign_if_special(special, operand, tree, path)}})

\* What _complete_node and instruction_detail leave: the detail returned
\* (NoDetail for None) or the exception raised, and the tree afterwards.
Resolved(err, detail, tree) == [err |-> err, detail |-> detail, tree |-> tree]

\* The code of _complete_node: the opcode, then the bytes of each operand
\* that instruction_detail_from_byte marked as immediate.
_complete_code(detail) ==
    The({
      The({
        IF detail.immediate1 /\ ~imm1.ok THEN [err |-> imm1.err, code |-> <<>>]
        ELSE IF detail.immediate2 /\ ~imm2.ok THEN [err |-> imm2.err, code |-> <<>>]
        ELSE [err |-> "",
              code |-> to_code(detail.addr)
                         \o (IF detail.immediate1 THEN to_code(imm1) ELSE <<>>)
                         \o (IF detail.immediate2 THEN to_code(imm2) ELSE <<>>)]
        : imm2 \in {IF detail.immediate2
                    THEN Expression("str", detail.operand2) ELSE NoData}})
      : imm1 \in {IF detail.immediate1
                  THEN Expression("str", detail.operand1) ELSE NoData}})

\* _Utils._complete_node, for a node that has the key "!".
_complete_node(operands, node) ==
    The({
      IF ~opcode.ok THEN [err |-> opcode.err, detail |-> NoDetail]
      ELSE The({
        IF ~found.some THEN [err |-> "AttributeError", detail |-> NoDetail]
        ELSE The({
          The({
            IF code.err # "" THEN [err |-> code.err, detail |-> NoDetail]
            ELSE [err |-> "", detail |-> [detail EXCEPT !.code = code.code]]
            : code \in {_complete_code(detail)}})
          : detail \in {[found EXCEPT
                           !.operand1 = IF Len(operands) > 0
                                        THEN operands[1] ELSE @,
                           !.operand2 = IF Len(operands) > 1
                                        THEN operands[2] ELSE @]}})
        : found \in {instruction_detail_from_byte(Lower(to_hex_string(opcode)))}})
      : opcode \in {Expression("str",
                      <<"0">> \o PyFormat(DictGet(node, Bang), 1, BASE_DEC))}})

\* node.pop("__label_value", None), as a read that leaves the tree alone.
pop_label_value_reads(tree, path) == tree

\* node.pop("__label_value", None): the tree afterwards, for the node at path.
pop_label_value(tree, path) ==
    SetAt(tree, path, DictPop(NodeAt(tree, path), LabelValueKey))

\* The loop of _Utils.instruction_detail, from the state it is in: elements
\* and index are counted as the code counts them (index 1 is the first
\* operand, the second element).
RECURSIVE instruction_detail_loop(_, _, _, _, _, _, _)
instruction_detail_loop(token_group, elements, special, tree, node, operands, index) ==
    IF ~(node.some /\ index <= Len(elements))
    THEN Resolved("", NoDetail, tree)
    ELSE IF DictHas(NodeAt(tree, node.path), Bang)
    THEN The({ Resolved(done.err, done.detail, tree)
               : done \in {_complete_node(operands, NodeAt(tree, node.path))}})
    ELSE IF index = Len(elements)
    THEN Resolved("IndexError", NoDetail, tree)
    ELSE The({
      IF a.err # "" THEN Resolved(a.err, NoDetail, a.tree)
      ELSE IF ~a.found
      THEN instruction_detail_loop(token_group, elements, a.special, a.tree,
                                   NoNode, Append(operands, elements[index + 1]),
                                   index + 1)
      ELSE The({
        instruction_detail_loop(token_group, elements, a.special,
                                pop_label_value(a.tree, a.path), Node(a.path),
                                Append(operands,
                                       IF Len(label) > 0 THEN label
                                       ELSE elements[index + 1]),
                                index + 1)
        : label \in {DictGetOr(NodeAt(a.tree, a.path), LabelValueKey, NoText)}})
      : a \in {_assignments(token_group, special, elements[index + 1], tree,
                            node.path)}})

\* _Utils.instruction_detail
instruction_detail(token_group, tree) ==
    The({
      IF listed.err # "" THEN Resolved(listed.err, NoDetail, tree)
      ELSE IF Len(listed.elements) = 0 THEN Resolved("", NoDetail, tree)
      ELSE instruction_detail_loop(
             token_group, listed.elements, listed.special, tree,
             instruction_from_mnemonic(tree, listed.elements[1]), <<>>, 1)
      : listed \in {listify(token_group)}})

\* Mnemonic.__init__
Mnemonic(tokens, tree) ==
    IF Len(tokens) = 0 THEN Resolved("ExpressionSyntaxError", NoDetail, tree)
    ELSE IF tokens[1].type # "INSTRUCTION"
    THEN Resolved("ExpressionSyntaxError", NoDetail, tree)
    ELSE instruction_detail(tokens, tree)

(***************************************************************************)
(* The resolver at work: one Mnemonic object is kept, as a caller keeps    *)
(* it to resolve it again; every other Mnemonic made shares the tree and   *)
(* the stores with it.                                                     *)
(***************************************************************************)
MaxMnOps == 4

MnCall(op, tokens, name, value, replace) ==
    [op |-> op, tokens |-> tokens, name |-> name, value |-> value,
     replace |-> replace]

\* InstructionSet.__new__, Labels.__new__ and Symbols.__init__, with no
\* Mnemonic made yet.
MnNew ==
    /\ lr35902 = BuiltTree
    /\ labels = <<>>
    /\ symbols = <<>>
    /\ mnTokens = <<>>
    /\ mnDetail = NoDetail
    /\ mnCall = MnCall("new", <<>>, NoText, NoText, FALSE)
    /\ mnResult = "None"
    /\ mnOps = 0

\* The token groups given to Mnemonic, as the tokenizer writes the lines
\* ld b, c / ld (hl), $FF / LD A, $10 / ld hl, HIGH / ldh ($20), A /
\* ldh (HIGH), a / JR NZ, $41 / JP $0100 / JP prog_main: / LD HL, SP+$41 /
\* LD HL, SP+OFFSET / HALT / NOP / LD B / $10 / LD A, ($FF00+C) /
\* LD ($FF00+C), A.
MnLines ==
    { << Token("INSTRUCTION", <<"l", "d">>), Token("LITERAL", <<"b">>),
         Token("LITERAL", <<"c">>) >>,
      << Token("INSTRUCTION", <<"l", "d">>), Token("BEGIN_PUNCTUATOR", <<"(">>),
         Token("LITERAL", <<"h", "l">>), Token("END_PUNCTUATOR", <<")">>),
         Token("EXPRESSION", <<"$", "F", "F">>) >>,
      << Token("INSTRUCTION", <<"L", "D">>), Token("LITERAL", <<"A">>),
         Token("EXPRESSION", <<"$", "1", "0">>) >>,
      << Token("INSTRUCTION", <<"l", "d">>), Token("LITERAL", <<"h", "l">>),
         Token("LITERAL", <<"H", "I", "G", "H">>) >>,
      << Token("INSTRUCTION", <<"l", "d", "h">>), Token("BEGIN_PUNCTUATOR", <<"(">>),
         Token("EXPRESSION", <<"$", "2", "0">>), Token("END_PUNCTUATOR", <<")">>),
         Token("LITERAL", <<"A">>) >>,
      << Token("INSTRUCTION", <<"l", "d", "h">>), Token("BEGIN_PUNCTUATOR", <<"(">>),
         Token("LITERAL", <<"H", "I", "G", "H">>), Token("END_PUNCTUATOR", <<")">>),
         Token("LITERAL", <<"a">>) >>,
      << Token("INSTRUCTION", <<"J", "R">>), Token("LITERAL", <<"N", "Z">>),
         Token("EXPRESSION", <<"$", "4", "1">>) >>,
      << Token("INSTRUCTION", <<"J", "P">>), Token("EXPRESSION", <<"$", "0", "1", "0", "0">>) >>,
      << Token("INSTRUCTION", <<"J", "P">>), Token("SYMBOL", <<"p", "r", "o", "g", "_", "m", "a", "i", "n", ":">>) >>,
      << Token("INSTRUCTION", <<"L", "D">>), Token("LITERAL", <<"H", "L">>),
         Token("LITERAL", <<"S", "P">>), Token("PUNCTUATOR", <<"+">>),
         Token("EXPRESSION", <<"$", "4", "1">>) >>,
      << Token("INSTRUCTION", <<"L", "D">>), Token("LITERAL", <<"H", "L">>),
         Token("LITERAL", <<"S", "P">>), Token("PUNCTUATOR", <<"+">>),
         Token("LITERAL", <<"O", "F", "F", "S", "E", "T">>) >>,
      << Token("INSTRUCTION", <<"H", "A", "L", "T">>) >>,
      << Token("INSTRUCTION", <<"N", "O", "P">>) >>,
      << Token("INSTRUCTION", <<"L", "D">>), Token("LITERAL", <<"B">>) >>,
      << Token("EXPRESSION", <<"$", "1", "0">>) >>,
      << Token("INSTRUCTION", <<"L", "D">>), Token("LITERAL", <<"A">>),
         Token("BEGIN_PUNCTUATOR", <<"(">>), Token("EXPRESSION", <<"$", "F", "F", "0", "0">>),
         Token("PUNCTUATOR", <<"+">>), Token("LITERAL", <<"C">>),
         Token("END_PUNCTUATOR", <<")">>) >>,
      << Token("INSTRUCTION", <<"L", "D">>), Token("BEGIN_PUNCTUATOR", <<"(">>),
         Token("EXPRESSION", <<"$", "F", "F", "0", "0">>), Token("PUNCTUATOR", <<"+">>),
         Token("LITERAL", <<"C">>), Token("END_PUNCTUATOR", <<")">>),
         Token("LITERAL", <<"A">>) >> }

\* The labels pushed, as <<name, value>>.
MnLabels ==
    { <<<<"H", "I", "G", "H">>, <<"$", "C", "B">>>>, <<<<"H", "I", "G", "H">>, <<"%", "0", "0", "0", "1", "0", "0", "0", "1">>>>, <<<<"H", "I", "G", "H">>, <<"$", "0", "1", "0", "0">>>>,
      <<<<"O", "F", "F", "S", "E", "T">>, <<"$", "7", "f">>>>, <<<<"h", "i", "g", "h">>, <<"$", "1", "2">>>> }

\* The name of the symbol added and the addresses it is given.
MnSymbolNames == { <<"p", "r", "o", "g", "_", "m", "a", "i", "n", ":">> }

MnSymbolAddresses == { <<"$", "0", "2", "0", "0">>, <<"$", "f", "f", "d", "2">> }

\* What a resolution reports: the exception, or whether a detail came back.
Outcome(resolved) ==
    IF resolved.err # "" THEN resolved.err
    ELSE IF resolved.detail.some THEN "detail" ELSE "None"

\* inst = Mnemonic(tokens): the object is kept when the constructor returns.
NewMnemonic ==
    /\ mnOps < MaxMnOps
    /\ \E tokens \in MnLines :
         \E made \in {Mnemonic(tokens, lr35902)} :
           /\ lr35902' = made.tree
           /\ mnTokens' = IF made.err = "" THEN tokens ELSE mnTokens
           /\ mnDetail' = IF made.err = "" THEN made.detail ELSE mnDetail
           /\ mnCall' = MnCall("Mnemonic", tokens, NoText, NoText, FALSE)
           /\ mnResult' = Outcome(made)
    /\ mnOps' = mnOps + 1
    /\ UNCHANGED <<labels, symbols>>
    /\ UNCHANGED nonMnVars

\* inst.resolve_again(), on the Mnemonic kept.
ResolveAgain ==
    /\ mnOps < MaxMnOps
    /\ Len(mnTokens) > 0
    /\ \E again \in {instruction_detail(mnTokens, lr35902)} :
         /\ lr35902' = again.tree
         /\ mnDetail' = IF again.err = "" THEN again.detail ELSE mnDetail
         /\ mnCall' = MnCall("resolve_again", mnTokens, NoText, NoText, FALSE)
         /\ mnResult' = Outcome(again)
    /\ mnOps' = mnOps + 1
    /\ UNCHANGED <<labels, symbols, mnTokens>>
    /\ UNCHANGED nonMnVars

\* Labels().push(Label(name, Expression(value)), replace)
PushLabel ==
    /\ mnOps < MaxMnOps
    /\ \E nv \in MnLabels, replace \in BOOLEAN :
         /\ labels' = LabelsPush(labels, Label(nv[1], Expression("str", nv[2])),
                                 replace)
         /\ mnCall' = MnCall("push", <<>>, nv[1], nv[2], replace)
         /\ mnResult' = IF LabelsFind(labels, nv[1]) # 0 /\ ~replace
                        THEN "False" ELSE "True"
    /\ mnOps' = mnOps + 1
    /\ UNCHANGED <<lr35902, symbols, mnTokens, mnDetail>>
    /\ UNCHANGED nonMnVars

\* Symbols().add(Symbol(name, Expression(address)))
AddSymbol ==
    /\ mnOps < MaxMnOps
    /\ \E name \in MnSymbolNames, address \in MnSymbolAddresses :
         /\ symbols' = SymbolsAdd(symbols,
                                  Symbol(name, Expression("str", address)))
         /\ mnCall' = MnCall("add", <<>>, name, address, FALSE)
         /\ mnResult' = "None"
    /\ mnOps' = mnOps + 1
    /\ UNCHANGED <<lr35902, labels, mnTokens, mnDetail>>
    /\ UNCHANGED nonMnVars

\* symbol.base_address = Expression(address), on a symbol of the store.
SetSymbolBaseAddress ==
    /\ mnOps < MaxMnOps
    /\ \E name \in MnSymbolNames, address \in MnSymbolAddresses :
         /\ SymbolsHas(symbols, name)
         /\ symbols' = DictSet(symbols, SymbolKey(name),
                               [SymbolsFind(symbols, name) EXCEPT
                                  !.base_address = Expression("str", address)])
         /\ mnCall' = MnCall("base_address", <<>>, name, address, FALSE)
         /\ mnResult' = "None"
    /\ mnOps' = mnOps + 1
    /\ UNCHANGED <<lr35902, labels, mnTokens, mnDetail>>
    /\ UNCHANGED nonMnVars

\* Labels().clear()
LabelsClear ==
    /\ mnOps < MaxMnOps
    /\ labels' = <<>>
    /\ mnCall' = MnCall("clear", <<>>, NoText, NoText, FALSE)
    /\ mnResult' = "None"
    /\ mnOps' = mnOps + 1
    /\ UNCHANGED <<lr35902, symbols, mnTokens, mnDetail>>
    /\ UNCHANGED nonMnVars

\* Symbols().remove_all()
SymbolsRemoveAll ==
    /\ mnOps < MaxMnOps
    /\ symbols' = <<>>
    /\ mnCall' = MnCall("remove_all", <<>>, NoText, NoText, FALSE)
    /\ mnResult' = "None"
    /\ mnOps' = mnOps + 1
    /\ UNCHANGED <<lr35902, labels, mnTokens, mnDetail>>
    /\ UNCHANGED nonMnVars

(***************************************************************************)
(* directives/define.py, directives/section.py, directives/sections.py:   *)
(* what the driver's directive handlers parse. Indices are counted as the  *)
(* code counts them, from 0; -1 stands for None where an index is kept.    *)
(***************************************************************************)
\* token_group[index:]
TailFrom(token_group, index) == SubSeq(token_group, index + 1, Len(token_group))

\* TokenGroup.index_of: tokens are equal when value and type are equal.
index_of(token_group, token) ==
    IF \E i \in 1..Len(token_group) :
         token_group[i].value = token.value /\ token_group[i].type = token.type
    THEN (CHOOSE i \in 1..Len(token_group) :
            /\ token_group[i].value = token.value
            /\ token_group[i].type = token.type
            /\ \A j \in 1..(i - 1) :
                 ~(token_group[j].value = token.value
                   /\ token_group[j].type = token.type)) - 1
    ELSE -1

\* Define.__init__: the exception it raises, "" when the object is built.
Define(tokens) ==
    IF Len(tokens) < 4 THEN "DefineSymbolError"
    ELSE IF ~(tokens[1].type = "DIRECTIVE" /\ tokens[1].value = <<"D", "E", "F">>)
    THEN "DefineSymbolError"
    ELSE IF tokens[3].value \notin {<<"E", "Q", "U">>, <<"E", "Q", "U", "S">>, <<"=">>}
    THEN "DefineAssignmentError"
    ELSE ""

\* SectionType()._mem_blocks: the start of each block.
_mem_blocks ==
    << <<<<"W", "R", "A", "M", "0">>, 49152>>, <<<<"V", "R", "A", "M">>, 32768>>, <<<<"R", "O", "M", "X">>, 16384>>,
       <<<<"R", "O", "M", "0">>, 0>>, <<<<"H", "R", "A", "M">>, 65408>>, <<<<"W", "R", "A", "M", "X">>, 53248>>,
       <<<<"S", "R", "A", "M">>, 40960>>, <<<<"O", "A", "M">>, 65024>> >>

\* _SectionParser._get_enclosed_value: the body of its loop for the token
\* at idx; done is set where the code breaks out of the loop.
_get_enclosed_step(st, tok, idx) ==
    IF st.done THEN st
    ELSE IF tok.type = "BEGIN_PUNCTUATOR" THEN [st EXCEPT !.start = idx]
    ELSE IF tok.type = "LITERAL" THEN [st EXCEPT !.label = tok.value]
    ELSE IF tok.type = "EXPRESSION"
    THEN IF st.start > 0 THEN [st EXCEPT !.label = tok.value]
         ELSE [st EXCEPT !.done = TRUE]
    ELSE IF tok.type = "END_PUNCTUATOR"
    THEN [st EXCEPT !.end = idx, !.done = TRUE]
    ELSE IF tok.type = "PUNCTUATOR"
    THEN IF tok.value \notin {<<"\"">>, <<"'">>} THEN st
         ELSE IF ~(st.start > 0) THEN [st EXCEPT !.start = idx]
         ELSE IF ~(st.end > 0) THEN [st EXCEPT !.end = idx, !.done = TRUE]
         ELSE st
    ELSE st

\* The loop of _get_enclosed_value over the tokens before index n.
RECURSIVE _get_enclosed_loop(_, _, _)
_get_enclosed_loop(tokens, start_idx, n) ==
    IF n <= start_idx
    THEN [start |-> -1, end |-> -1, label |-> NoText, done |-> FALSE]
    ELSE The({ _get_enclosed_step(st, tokens[n], n - 1)
               : st \in {_get_enclosed_loop(tokens, start_idx, n - 1)}})

\* _SectionParser._get_enclosed_value: the label is forgotten when the
\* delimiters found are no pair.
_get_enclosed_value(tokens, start_idx) ==
    The({ IF st.start > 0 /\ st.end > 0
             /\ <<tokens[st.start + 1].value, tokens[st.end + 1].value>>
                  \notin {<<<<"'">>, <<"'">>>>, <<<<"\"">>, <<"\"">>>>, <<<<"[">>, <<"]">>>>,
                          <<<<"(">>, <<")">>>>, <<<<"{">>, <<"}">>>>}
          THEN [st EXCEPT !.label = NoText]
          ELSE st
          : st \in {_get_enclosed_loop(tokens, start_idx, Len(tokens))}})

\* SectionData(), with the parser's _dir_idx and _curr_dir, the exception
\* raised while parsing, and whether the loop was left on an error.
SectionData ==
    [label |-> NoText, block_name |-> NoText, block_offset |-> NoText,
     bank_key |-> NoText, bank_num |-> NoText, align_key |-> NoText,
     align_val |-> NoText, error |-> FALSE, last_idx |-> 0,
     dir_idx |-> 0, curr_dir |-> NoText, err |-> "", left |-> FALSE]

\* _SectionParser._handle_enclosure
_handle_enclosure(st, tokens) ==
    The({ IF enclosure.label = NoText THEN st
          ELSE IF enclosure.end < 0 THEN [st EXCEPT !.err = "TypeError"]
          ELSE The({ [set EXCEPT !.dir_idx = enclosure.end + 1]
                     : set \in {
                         IF st.curr_dir = <<"S", "E", "C", "T", "I", "O", "N">>
                         THEN [st EXCEPT !.label = enclosure.label]
                         ELSE IF st.curr_dir = <<"M", "E", "M", "O", "R", "Y", "_", "D", "I", "R", "E", "C", "T", "I", "V", "E">>
                         THEN [st EXCEPT !.block_offset = enclosure.label]
                         ELSE IF st.curr_dir = <<"B", "A", "N", "K">>
                         THEN [st EXCEPT !.bank_num = enclosure.label]
                         ELSE IF st.curr_dir = <<"A", "L", "I", "G", "N">>
                         THEN [st EXCEPT !.align_val = enclosure.label]
                         ELSE [st EXCEPT !.error = TRUE]}})
          : enclosure \in {_get_enclosed_value(tokens, st.dir_idx)}})

\* _SectionParser.parse: the handler its match statement calls for a token.
_handle_token(st, tokens, tok, idx) ==
    IF tok.type = "DIRECTIVE"
    THEN IF tok.value = <<"S", "E", "C", "T", "I", "O", "N">>
         THEN [st EXCEPT !.curr_dir = tok.value, !.dir_idx = idx + 1]
         ELSE st
    ELSE IF tok.type = "EXPRESSION"
    THEN IF tok.data.descriptor.base = BASE_STR
         THEN [st EXCEPT !.label = tok.data.word]
         ELSE st
    ELSE IF tok.type \in {"BEGIN_PUNCTUATOR", "PUNCTUATOR"}
    THEN _handle_enclosure(st, tokens)
    ELSE IF tok.type = "MEMORY_DIRECTIVE"
    THEN IF st.label # NoText
         THEN [st EXCEPT !.block_name = tok.value, !.dir_idx = idx + 1,
                         !.curr_dir = <<"M", "E", "M", "O", "R", "Y", "_", "D", "I", "R", "E", "C", "T", "I", "V", "E">>]
         ELSE [st EXCEPT !.error = TRUE]
    ELSE IF tok.type = "MEMORY_OPTION"
    THEN IF st.block_name # NoText /\ tok.value = <<"B", "A", "N", "K">>
         THEN [st EXCEPT !.bank_key = tok.value, !.curr_dir = tok.value,
                         !.dir_idx = idx + 1, !.error = FALSE]
         ELSE IF st.block_name # NoText /\ tok.value = <<"A", "L", "I", "G", "N">>
         THEN [st EXCEPT !.align_key = tok.value, !.curr_dir = tok.value,
                         !.dir_idx = idx + 1, !.error = FALSE]
         ELSE IF st.block_name # NoText
         THEN [st EXCEPT !.curr_dir = tok.value, !.error = TRUE]
         ELSE [st EXCEPT !.error = TRUE]
    ELSE st

\* _SectionParser.parse: its loop over the tokens before index n.
RECURSIVE _parse_loop(_, _)
_parse_loop(tokens, n) ==
    IF n = 0 THEN SectionData
    ELSE The({
      IF st.err # "" \/ st.left \/ n - 1 < st.dir_idx THEN st
      ELSE The({
        IF after.err # "" THEN after
        ELSE IF after.error THEN [after EXCEPT !.left = TRUE]
        ELSE [after EXCEPT !.last_idx = IF after.dir_idx > 0
                                        THEN after.dir_idx - 1 ELSE 0]
        : after \in {_handle_token(st, tokens, tokens[n], n - 1)}})
      : st \in {_parse_loop(tokens, n - 1)}})

\* _validate_bank and _validate_align: int(text) and the check of its value.
_validate(key, text, allowed, error) ==
    IF key = NoText THEN ""
    ELSE IF text = NoText THEN "TypeError"
    ELSE IF \E i \in 1..Len(text) : DigitValue(text[i]) >= 10 THEN error
    ELSE IF PyInt(text, 10) \notin allowed THEN error
    ELSE ""

\* Section.__init__: the SectionData parsed, with err the exception raised.
Section(tokens) ==
    IF Len(tokens) < 3 THEN [SectionData EXCEPT !.err = "SectionDeclarationError"]
    ELSE The({
      IF data.err # "" THEN data
      ELSE IF _validate(data.bank_key, data.bank_num, 0..7, "SectionBankError") # ""
      THEN [data EXCEPT !.err = _validate(data.bank_key, data.bank_num, 0..7,
                                          "SectionBankError")]
      ELSE [data EXCEPT !.err = _validate(data.align_key, data.align_val,
                                          {0, 1, 2, 4, 8}, "SectionAlignError")]
      : data \in {_parse_loop(tokens, Len(tokens))}})

\* Section.starting_address: NoData for None.
starting_address(data) ==
    IF data.block_name = NoText \/ ~DictHas(_mem_blocks, Strip(Upper(data.block_name), {" "}))
    THEN NoData
    ELSE The({
      Expression("str",
        <<"0">> \o PyFormat(DictGet(_mem_blocks, Strip(Upper(data.block_name), {" "}))
                          + (IF offset.ok THEN integer_value(offset) ELSE 0),
                        1, BASE_DEC))
      : offset \in {IF data.block_offset = NoText THEN NoData
                    ELSE Expression("str", data.block_offset)}})

\* Sections.find_first_index: the index, -1 for None.
find_first_index(store, name) ==
    IF \E i \in 1..Len(store) : Upper(store[i].label) = Upper(name)
    THEN (CHOOSE i \in 1..Len(store) :
            /\ Upper(store[i].label) = Upper(name)
            /\ \A j \in 1..(i - 1) : Upper(store[j].label) # Upper(name)) - 1
    ELSE -1

\* The address of the last byte of each memory block of SectionType.
_mem_block_ends ==
    << <<<<"W", "R", "A", "M", "0">>, 53247>>, <<<<"V", "R", "A", "M">>, 40959>>, <<<<"R", "O", "M", "X">>, 32767>>,
       <<<<"R", "O", "M", "0">>, 16383>>, <<<<"H", "R", "A", "M">>, 65534>>, <<<<"W", "R", "A", "M", "X">>, 57343>>,
       <<<<"S", "R", "A", "M">>, 49151>>, <<<<"O", "A", "M">>, 65183>> >>

\* What an operation of Sections returns or raises, and the store it leaves.
Stored(result, store) == [result |-> result, store |-> store]

\* pop(name), removing every section of that label.
SectionsPop_all(store, name) ==
    IF Len(name) = 0 \/ find_first_index(store, name) < 0
    THEN Stored("ValueError", store)
    ELSE Stored("Section",
                SelectSeq(store, LAMBDA s : Upper(s.label) # Upper(name)))

\* Sections.pop(name): the first section of that label leaves the store.
SectionsPop(store, name) ==
    IF Len(name) = 0 THEN Stored("ValueError", store)
    ELSE The({
      IF existing < 0 THEN Stored("ValueError", store)
      ELSE Stored("Section",
                  SubSeq(store, 1, existing)
                    \o SubSeq(store, existing + 2, Len(store)))
      : existing \in {find_first_index(store, name)}})

\* Sections.push(section, replace): the test of find_first_index(label) is
\* false for None and for index 0. A section with err "None" is None, and
\* a label of NoText is None, which has no upper().
SectionsPushReplace(store, section, replace) ==
    IF section.err = "None" THEN Stored("ValueError", store)
    ELSE IF section.label = NoText THEN Stored("AttributeError", store)
    ELSE IF find_first_index(store, section.label) > 0
    THEN IF replace
         THEN The({ IF popped.result = "Section"
                    THEN Stored("True", Append(popped.store, section))
                    ELSE popped
                    : popped \in {SectionsPop(store, section.label)}})
         ELSE Stored("False", store)
    ELSE Stored("True", Append(store, section))

\* Sections.push(section), as the driver calls it: the store afterwards.
SectionsPush(store, section) ==
    SectionsPushReplace(store, section, FALSE).store

\* Sections.replace(section)
SectionsReplace(store, section) ==
    IF section.err = "None" THEN Stored("ValueError", store)
    ELSE IF section.label = NoText THEN Stored("AttributeError", store)
    ELSE The({
      IF existing < 0 THEN Stored("False", store)
      ELSE Stored("True", [store EXCEPT ![existing + 1] = section])
      : existing \in {find_first_index(store, section.label)}})

\* Storage(token_group).bytes() for a DB line: one byte per value.
StorageBytes(token_group) ==
    [i \in 1..(Len(token_group) - 1) |->
       integer_value(token_group[i + 1].data) % 256]

\* InstructionPointer.curr_pos: a copy of the pointer as 16-bit hex.
curr_pos(pointer) ==
    Expression("str", <<"$">> \o PyFormat(integer_value(pointer), 4, BASE_WORD))

(***************************************************************************)
(* assembly/assembler_utils.py: AssemblerUtils. The singletons a handler   *)
(* writes are handed along as a record; the label store and the            *)
(* instruction pointer are only read.                                      *)
(***************************************************************************)
World(syms, secs, data, address, tree) ==
    [symbols |-> syms, sections |-> secs, data |-> data, address |-> address,
     tree |-> tree]

\* What a handler leaves: the exception it raised, else the group it
\* returned, and the singletons afterwards.
Handled(err, grp, w) == [err |-> err, grp |-> grp, w |-> w]

\* _process_define, then resolve_any_primary_directive (lines 81-84): a
\* Define that raises makes _process_define return False; index_of(False)
\* is None and token_group[None:] is the whole group. A Define that is
\* built is no Label, so Labels().push raises TypeError.
_process_define(token_group, w) ==
    IF Define(token_group) # "" THEN Handled("", token_group, w)
    ELSE Handled("TypeError", <<>>, w)

\* _process_section, then resolve_any_primary_directive (lines 81-84).
_process_section(token_group, w) ==
    The({
      IF sec.err # "" THEN Handled("", <<>>, w)
      ELSE IF sec.label = NoText THEN Handled("AttributeError", <<>>, w)
      ELSE The({
        The({
          IF ~address.ok /\ address.err = "None"
          THEN Handled("ValueError", <<>>, pushed)
          ELSE IF ~address.ok THEN Handled(address.err, <<>>, pushed)
          ELSE The({
            Handled("",
                    IF sec.last_idx + 1 < Len(token_group)
                    THEN TailFrom(token_group,
                                  index_of(token_group,
                                           token_group[sec.last_idx + 2]))
                    ELSE <<>>,
                    [pushed EXCEPT !.data = entry.data,
                                   !.address = entry.address])
            : entry \in {create_new_address_entry(w.data, w.address, TRUE,
                                                  address)}})
          : address \in {starting_address(sec)}})
        : pushed \in {[w EXCEPT !.sections = SectionsPush(w.sections, sec)]}})
      : sec \in {Section(token_group)}})

\* AssemblerUtils.resolve_any_primary_directive: tok is not bound for a
\* directive other than DEF and SECTION.
resolve_any_primary_directive(token_group, w) ==
    IF Upper(token_group[1].value) = <<"D", "E", "F">> THEN _process_define(token_group, w)
    ELSE IF Upper(token_group[1].value) = <<"S", "E", "C", "T", "I", "O", "N">>
    THEN _process_section(token_group, w)
    ELSE Handled("UnboundLocalError", <<>>, w)

\* AssemblerUtils.resolve_any_storage
resolve_any_storage(token_group, w) ==
    IF Len(token_group) > 1
    THEN The({
      Handled(IF appended.result = "True" THEN "" ELSE appended.result, <<>>,
              [w EXCEPT !.data = appended.data, !.address = appended.address])
      : appended \in {append_code(w.data, w.address, StorageBytes(token_group))}})
    ELSE Handled("", TailFrom(token_group, 1), w)

\* The subclasses of ExpressionException.
ExpressionExceptions ==
    {"ExpressionException", "ExpressionSyntaxError", "ExpressionTypeError",
     "ExpressionDescriptorError"}

\* AssemblerUtils.resolve_any_instruction
resolve_any_instruction(token_group, w) ==
    IF Len(token_group) > 1
    THEN The({
      IF mnemonic.err \in ExpressionExceptions
      THEN Handled("ExpressionException", <<>>, [w EXCEPT !.tree = mnemonic.tree])
      ELSE IF mnemonic.err # ""
      THEN Handled(mnemonic.err, <<>>, [w EXCEPT !.tree = mnemonic.tree])
      ELSE IF ~mnemonic.detail.some
      THEN Handled("AttributeError", <<>>, [w EXCEPT !.tree = mnemonic.tree])
      ELSE The({
        Handled(IF appended.result = "True" THEN "" ELSE appended.result, <<>>,
                [w EXCEPT !.tree = mnemonic.tree, !.data = appended.data,
                          !.address = appended.address])
        : appended \in {append_code(w.data, w.address, mnemonic.detail.code)}})
      : mnemonic \in {Mnemonic(token_group, w.tree)}})
    ELSE Handled("", <<>>, w)

\* _process_symbol, for a token that carries its Symbol: the symbol gets
\* the current position and is removed from and added to the store.
_process_symbol(token_group, w) ==
    [w EXCEPT !.symbols =
       SymbolsAdd(DictPop(w.symbols, SymbolKey(token_group[1].value)),
                  Symbol(token_group[1].value, curr_pos(ipPointer)))]

\* AssemblerUtils.resolve_any_symbol
resolve_any_symbol(token_group, w) ==
    The({ IF idx + 1 < Len(token_group)
          THEN Handled("", TailFrom(token_group, idx + 1),
                       _process_symbol(token_group, w))
          ELSE Handled("", <<>>, _process_symbol(token_group, w))
          : idx \in {index_of(token_group, token_group[1])}})

\* One call of AssemblerUtils.process_tokens, up to the call of itself on
\* the group the handler returned: pending is that call still to be made.
process_tokens(token_group, w) ==
    IF Len(token_group) = 0
    THEN [result |-> "False", handler |-> "none", grp |-> <<>>, w |-> w]
    ELSE The({
      The({
        [result |-> IF grp.err # "" THEN grp.err
                    ELSE IF Len(grp.grp) > 0 THEN "pending" ELSE "True",
         handler |-> handler, grp |-> grp.grp, w |-> grp.w]
        : grp \in {
            IF handler = "DIRECTIVE"
            THEN resolve_any_primary_directive(token_group, w)
            ELSE IF handler = "STORAGE_DIRECTIVE"
            THEN resolve_any_storage(token_group, w)
            ELSE IF handler = "INSTRUCTION"
            THEN resolve_any_instruction(token_group, w)
            ELSE IF handler = "SYMBOL"
            THEN resolve_any_symbol(token_group, w)
            ELSE Handled("", TailFrom(token_group, 1), w)}})
      : handler \in {IF token_group[1].type \in
                          {"DIRECTIVE", "STORAGE_DIRECTIVE", "INSTRUCTION", "SYMBOL"}
                     THEN token_group[1].type ELSE "skip"}})

(***************************************************************************)
(* The driver at work: Assembler._process_file hands process_tokens one    *)
(* tokenized line at a time; process_tokens calls itself on what the       *)
(* handler returned.                                                       *)
(***************************************************************************)
MaxDrvOps == 2

\* The depth at which the interpreter stops a recursion with
\* RecursionError, scaled down.
RecursionLimit == 3

DrvNew ==
    /\ sections = <<>>
    /\ drvLine = <<>>
    /\ drvLast = <<>>
    /\ drvGroup = <<>>
    /\ drvDepth = 0
    /\ drvHandled = <<>>
    /\ drvResult = "None"
    /\ drvOps = 0

\* The lines given to the driver, as the tokenizer writes them:
\* SECTION "game", WRAM0[$0100] / SECTION "main", ROM0 /
\* SECTION "vars", WRAM0 HALT / SECTION ROM0 / DEF HIGH EQU $CB /
\* DEF VAR_NAME EQU $0100 / DEF HIGH /
\* DEF HIGH EQ $CB / LABEL: LD A, $10 / HALT / LD A, $10 / JP LABEL: /
\* EXPORT foo / DB $01, $02 / $10 HALT.
DrvLines ==
    { << Token("DIRECTIVE", <<"S", "E", "C", "T", "I", "O", "N">>), Token("PUNCTUATOR", <<"\"">>),
         Token("LITERAL", <<"g", "a", "m", "e">>), Token("PUNCTUATOR", <<"\"">>),
         Token("MEMORY_DIRECTIVE", <<"W", "R", "A", "M", "0">>), Token("BEGIN_PUNCTUATOR", <<"[">>),
         Token("EXPRESSION", <<"$", "0", "1", "0", "0">>), Token("END_PUNCTUATOR", <<"]">>) >>,
      << Token("DIRECTIVE", <<"S", "E", "C", "T", "I", "O", "N">>), Token("PUNCTUATOR", <<"\"">>),
         Token("LITERAL", <<"m", "a", "i", "n">>), Token("PUNCTUATOR", <<"\"">>),
         Token("MEMORY_DIRECTIVE", <<"R", "O", "M", "0">>) >>,
      << Token("DIRECTIVE", <<"S", "E", "C", "T", "I", "O", "N">>), Token("PUNCTUATOR", <<"\"">>),
         Token("LITERAL", <<"v", "a", "r", "s">>), Token("PUNCTUATOR", <<"\"">>),
         Token("MEMORY_DIRECTIVE", <<"W", "R", "A", "M", "0">>), Token("INSTRUCTION", <<"H", "A", "L", "T">>) >>,
      << Token("DIRECTIVE", <<"S", "E", "C", "T", "I", "O", "N">>), Token("MEMORY_DIRECTIVE", <<"R", "O", "M", "0">>) >>,
      << Token("DIRECTIVE", <<"D", "E", "F">>), Token("LITERAL", <<"H", "I", "G", "H">>),
         Token("DIRECTIVE", <<"E", "Q", "U">>), Token("EXPRESSION", <<"$", "C", "B">>) >>,
      << Token("DIRECTIVE", <<"D", "E", "F">>), Token("LITERAL", <<"V", "A", "R", "_", "N", "A", "M", "E">>),
         Token("DIRECTIVE", <<"E", "Q", "U">>), Token("EXPRESSION", <<"$", "0", "1", "0", "0">>) >>,
      << Token("DIRECTIVE", <<"D", "E", "F">>), Token("LITERAL", <<"H", "I", "G", "H">>) >>,
      << Token("DIRECTIVE", <<"D", "E", "F">>), Token("LITERAL", <<"H", "I", "G", "H">>),
         Token("LITERAL", <<"E", "Q">>), Token("EXPRESSION", <<"$", "C", "B">>) >>,
      << Token("SYMBOL", <<"L", "A", "B", "E", "L", ":">>), Token("INSTRUCTION", <<"L", "D">>),
         Token("LITERAL", <<"A">>), Token("EXPRESSION", <<"$", "1", "0">>) >>,
      << Token("INSTRUCTION", <<"H", "A", "L", "T">>) >>,
      << Token("INSTRUCTION", <<"L", "D">>), Token("LITERAL", <<"A">>),
         Token("EXPRESSION", <<"$", "1", "0">>) >>,
      << Token("INSTRUCTION", <<"J", "P">>), Token("SYMBOL", <<"L", "A", "B", "E", "L", ":">>) >>,
      << Token("DIRECTIVE", <<"E", "X", "P", "O", "R", "T">>), Token("LITERAL", <<"f", "o", "o">>) >>,
      << Token("STORAGE_DIRECTIVE", <<"D", "B">>), Token("EXPRESSION", <<"$", "0", "1">>),
         Token("EXPRESSION", <<"$", "0", "2">>) >>,
      << Token("EXPRESSION", <<"$", "1", "0">>), Token("INSTRUCTION", <<"H", "A", "L", "T">>) >> }

\* One call of process_tokens(token_group), the depth-th for the line.
CallProcessTokens(token_group, depth, line, handled) ==
    \E done \in {process_tokens(token_group,
                                World(symbols, sections, appData, appAddress,
                                      lr35902))} :
      /\ symbols' = done.w.symbols
      /\ sections' = done.w.sections
      /\ appData' = done.w.data
      /\ appAddress' = done.w.address
      /\ lr35902' = done.w.tree
      /\ drvLine' = line
      /\ drvLast' = token_group
      /\ drvGroup' = IF done.result = "pending" THEN done.grp ELSE <<>>
      /\ drvDepth' = depth
      /\ drvHandled' = Append(handled, done.handler)
      /\ drvResult' = done.result
      /\ UNCHANGED <<labels, mnTokens, mnDetail, mnCall, mnResult, mnOps>>
      /\ UNCHANGED <<appCall, appResult, appOps>>
      /\ UNCHANGED ipVars
      /\ UNCHANGED storeVars

\* self._utils.process_tokens(tokens), for the next line of the file.
AssembleLine ==
    /\ drvResult # "pending"
    /\ drvOps < MaxDrvOps
    /\ \E line \in DrvLines : CallProcessTokens(line, 1, line, <<>>)
    /\ drvOps' = drvOps + 1

\* return self.process_tokens(new_grp): the call of itself, which the
\* interpreter refuses at its recursion limit.
ProcessTokensAgain ==
    /\ drvResult = "pending"
    /\ IF drvDepth >= RecursionLimit
       THEN /\ drvResult' = "RecursionError"
            /\ drvGroup' = <<>>
            /\ UNCHANGED <<sections, drvLine, drvLast, drvDepth, drvHandled>>
            /\ UNCHANGED <<ipVars, appVars, mnVars, storeVars>>
       ELSE CallProcessTokens(drvGroup, drvDepth + 1, drvLine, drvHandled)
    /\ UNCHANGED drvOps

(***************************************************************************)
(* directives/section.py and directives/sections.py: Sections constructed  *)
(* from token groups, and the operations of the Sections store.            *)
(***************************************************************************)
\* Bound: the number of Section and Sections operations called.
MaxSecOps == 3

SecCall(op, arg, name, replace) ==
    [op |-> op, arg |-> arg, name |-> name, replace |-> replace]

\* No Section constructed yet, and no operation called.
SecNew ==
    /\ secObj = [SectionData EXCEPT !.err = "None"]
    /\ secCall = SecCall("new", <<>>, NoText, FALSE)
    /\ secResult = "None"
    /\ secOps = 0

\* The token groups of the lines
\* SECTION "coolstuff", WRAM0[$4567] / SECTION "MAIN_ENTRY", ROMX, BANK[2] /
\* SECTION "coolstuff", ROM0, ALIGN[8] / SECTION "CoolStuff", VRAM /
\* SECTION "hi", HRAM[$10].
SecLines ==
    { << Token("DIRECTIVE", <<"S", "E", "C", "T", "I", "O", "N">>), Token("PUNCTUATOR", <<"\"">>),
         Token("LITERAL", <<"c", "o", "o", "l", "s", "t", "u", "f", "f">>), Token("PUNCTUATOR", <<"\"">>),
         Token("MEMORY_DIRECTIVE", <<"W", "R", "A", "M", "0">>), Token("BEGIN_PUNCTUATOR", <<"[">>),
         Token("EXPRESSION", <<"$", "4", "5", "6", "7">>), Token("END_PUNCTUATOR", <<"]">>) >>,
      << Token("DIRECTIVE", <<"S", "E", "C", "T", "I", "O", "N">>), Token("PUNCTUATOR", <<"\"">>),
         Token("LITERAL", <<"M", "A", "I", "N", "_", "E", "N", "T", "R", "Y">>), Token("PUNCTUATOR", <<"\"">>),
         Token("MEMORY_DIRECTIVE", <<"R", "O", "M", "X">>), Token("MEMORY_OPTION", <<"B", "A", "N", "K">>),
         Token("BEGIN_PUNCTUATOR", <<"[">>), Token("LITERAL", <<"2">>),
         Token("END_PUNCTUATOR", <<"]">>) >>,
      << Token("DIRECTIVE", <<"S", "E", "C", "T", "I", "O", "N">>), Token("PUNCTUATOR", <<"\"">>),
         Token("LITERAL", <<"c", "o", "o", "l", "s", "t", "u", "f", "f">>), Token("PUNCTUATOR", <<"\"">>),
         Token("MEMORY_DIRECTIVE", <<"R", "O", "M", "0">>), Token("MEMORY_OPTION", <<"A", "L", "I", "G", "N">>),
         Token("BEGIN_PUNCTUATOR", <<"[">>), Token("LITERAL", <<"8">>),
         Token("END_PUNCTUATOR", <<"]">>) >>,
      << Token("DIRECTIVE", <<"S", "E", "C", "T", "I", "O", "N">>), Token("PUNCTUATOR", <<"\"">>),
         Token("LITERAL", <<"C", "o", "o", "l", "S", "t", "u", "f", "f">>), Token("PUNCTUATOR", <<"\"">>),
         Token("MEMORY_DIRECTIVE", <<"V", "R", "A", "M">>) >>,
      << Token("DIRECTIVE", <<"S", "E", "C", "T", "I", "O", "N">>), Token("PUNCTUATOR", <<"\"">>),
         Token("LITERAL", <<"h", "i">>), Token("PUNCTUATOR", <<"\"">>),
         Token("MEMORY_DIRECTIVE", <<"H", "R", "A", "M">>), Token("BEGIN_PUNCTUATOR", <<"[">>),
         Token("EXPRESSION", <<"$", "1", "0">>), Token("END_PUNCTUATOR", <<"]">>) >> }

\* Further lines a Section is constructed from:
\* SECTION "main", ROM0 / SECTION "far", WRAM0[$2000] / SECTION ROM0 /
\* SECTION "bad", ROMX, BANK[9].
SecLinesMore ==
    { << Token("DIRECTIVE", <<"S", "E", "C", "T", "I", "O", "N">>), Token("PUNCTUATOR", <<"\"">>),
         Token("LITERAL", <<"m", "a", "i", "n">>), Token("PUNCTUATOR", <<"\"">>),
         Token("MEMORY_DIRECTIVE", <<"R", "O", "M", "0">>) >>,
      << Token("DIRECTIVE", <<"S", "E", "C", "T", "I", "O", "N">>), Token("PUNCTUATOR", <<"\"">>),
         Token("LITERAL", <<"f", "a", "r">>), Token("PUNCTUATOR", <<"\"">>),
         Token("MEMORY_DIRECTIVE", <<"W", "R", "A", "M", "0">>), Token("BEGIN_PUNCTUATOR", <<"[">>),
         Token("EXPRESSION", <<"$", "2", "0", "0", "0">>), Token("END_PUNCTUATOR", <<"]">>) >>,
      << Token("DIRECTIVE", <<"S", "E", "C", "T", "I", "O", "N">>), Token("MEMORY_DIRECTIVE", <<"R", "O", "M", "0">>) >>,
      << Token("DIRECTIVE", <<"S", "E", "C", "T", "I", "O", "N">>), Token("PUNCTUATOR", <<"\"">>),
         Token("LITERAL", <<"b", "a", "d">>), Token("PUNCTUATOR", <<"\"">>),
         Token("MEMORY_DIRECTIVE", <<"R", "O", "M", "X">>), Token("MEMORY_OPTION", <<"B", "A", "N", "K">>),
         Token("BEGIN_PUNCTUATOR", <<"[">>), Token("LITERAL", <<"9">>),
         Token("END_PUNCTUATOR", <<"]">>) >> }

\* The names handed to Sections().pop.
SecNames == { <<"C", "o", "o", "l", "S", "t", "u", "f", "f">>, <<"m", "a", "i", "n", "_", "e", "n", "t", "r", "y">>, <<"n", "o", "t", "h", "e", "r", "e">>, NoText }

\* What the operations of Section and Sections leave alone.
nonSecVars ==
    <<ipVars, appVars, mnVars, drvLine, drvLast, drvGroup, drvDepth,
      drvHandled, drvResult, drvOps, symObj, symCall, symResult, symOps,
      valueVars>>

\* sec = Section(tokens): sec keeps its value when the constructor raises.
NewSection ==
    /\ secOps < MaxSecOps
    /\ \E tokens \in SecLines \cup SecLinesMore :
       \E made \in {Section(tokens)} :
          /\ secObj' = IF made.err = "" THEN made ELSE secObj
          /\ secCall' = SecCall("Section", tokens, NoText, FALSE)
          /\ secResult' = IF made.err = "" THEN "None" ELSE made.err
    /\ secOps' = secOps + 1
    /\ UNCHANGED sections
    /\ UNCHANGED nonSecVars

\* Sections().push(Section(tokens), replace), and Sections().push(None).
SecPush ==
    /\ secOps < MaxSecOps
    /\ \E replace \in BOOLEAN :
       \E section \in {Section(tokens) : tokens \in SecLines}
                        \cup {[SectionData EXCEPT !.err = "None"]} :
       \E done \in {SectionsPushReplace(sections, section, replace)} :
          /\ section.err \in {"", "None"}
          /\ sections' = done.store
          /\ secCall' = SecCall("push", section, section.label, replace)
          /\ secResult' = done.result
    /\ secOps' = secOps + 1
    /\ UNCHANGED secObj
    /\ UNCHANGED nonSecVars

\* Sections().pop(name)
SecPop ==
    /\ secOps < MaxSecOps
    /\ \E name \in SecNames :
       \E done \in {SectionsPop(sections, name)} :
          /\ sections' = done.store
          /\ secCall' = SecCall("pop", <<>>, name, FALSE)
          /\ secResult' = done.result
    /\ secOps' = secOps + 1
    /\ UNCHANGED secObj
    /\ UNCHANGED nonSecVars

\* Sections().replace(Section(tokens))
SecReplace ==
    /\ secOps < MaxSecOps
    /\ \E section \in {Section(tokens) : tokens \in SecLines} :
       \E done \in {SectionsReplace(sections, section)} :
          /\ section.err = ""
          /\ sections' = done.store
          /\ secCall' = SecCall("replace", section, section.label, FALSE)
          /\ secResult' = done.result
    /\ secOps' = secOps + 1
    /\ UNCHANGED secObj
    /\ UNCHANGED nonSecVars

\* Sections().clear()
SecClear ==
    /\ secOps < MaxSecOps
    /\ sections' = <<>>
    /\ secCall' = SecCall("clear", <<>>, NoText, FALSE)
    /\ secResult' = "None"
    /\ secOps' = secOps + 1
    /\ UNCHANGED secObj
    /\ UNCHANGED nonSecVars

(***************************************************************************)
(* core/symbol.py: the Symbol constructor, its validation and its scope.   *)
(***************************************************************************)
\* Bound: the number of Symbols constructed.
MaxSymOps == 1

MAX_SYMBOL_LENGTH == 25

\* s.count(c)
CountOf(s, c) == Cardinality({i \in 1..Len(s) : s[i] = c})

\* SymbolUtils.clean_name: name.strip(".:")
clean_name(name) == Strip(name, {".", ":"})

\* SymbolUtils.symbol_has_valid_chars
symbol_has_valid_chars(name) ==
    \A i \in 1..Len(name) :
       \/ name[i] \in AsciiLetters
       \/ DigitValue(name[i]) < 10
       \/ name[i] \in {".", ":", "_"}

\* SymbolUtils.name_has_valid_chars: "True", "False", or the exception of
\* Expression that its except clause does not name.
name_has_valid_chars(line) ==
    The({ IF made.ok THEN "True"
          ELSE IF made.err \in {"TypeError", "ExpressionBoundsError",
                                "ExpressionSyntaxError"}
          THEN "False"
          ELSE made.err
          : made \in {Expression("str", <<"'">> \o clean_name(line) \o <<"'">>)}})

\* Symbol._has_valid_decorators, past the two character checks.
_decorators_valid(name) ==
    \E stop_count \in {CountOf(name, ".")} :
    \E colon_count \in {CountOf(name, ":")} :
    \E extern \in {EndsWith(name, <<":", ":">>) /\ colon_count = 2 /\ stop_count = 0} :
    \E local \in {EndsWith(name, <<":">>) /\ colon_count = 1 /\ stop_count = 0} :
    \E priv \in {StartsWith(name, <<".">>) /\ ~extern /\ ~local /\ stop_count = 1} :
       ~(\/ (~priv /\ ~local /\ ~extern)
         \/ stop_count > 1 \/ colon_count > 2
         \/ (extern /\ stop_count # 0)
         \/ StartsWith(name, <<":">>) \/ EndsWith(name, <<".">>))

\* Symbol._has_valid_decorators: "True", "False", or the exception raised.
\* The test clean[0].isalpha is False compares a method with False and
\* never holds.
_has_valid_decorators(name) ==
    IF ~symbol_has_valid_chars(name) THEN "False"
    ELSE IF name_has_valid_chars(name) # "True" THEN name_has_valid_chars(name)
    ELSE IF CountOf(clean_name(name), ".") > 0
            \/ CountOf(clean_name(name), ":") > 0
    THEN "False"
    ELSE IF _decorators_valid(name) THEN "True" ELSE "False"

\* Symbol._scope_and_validate: the scope, "None", or the exception raised.
_scope_and_validate(name) ==
    IF Len(name) > MAX_SYMBOL_LENGTH THEN "None"
    ELSE IF _has_valid_decorators(name) = "False" THEN "None"
    ELSE IF _has_valid_decorators(name) # "True" THEN _has_valid_decorators(name)
    ELSE IF StartsWith(name, <<".">>) THEN "PRIVATE"
    ELSE IF EndsWith(name, <<":", ":">>) THEN "GLOBAL"
    ELSE IF EndsWith(name, <<":">>) THEN "LOCAL"
    ELSE "None"

\* No Symbol object.
NoSymbol ==
    [name |-> NoText, clean_name |-> NoText, scope |-> "None",
     addressing |-> FALSE, base_address |-> NoData]

\* Symbol.__init__(name, addressing), with the InstructionPointer's
\* base_address as it reads it: the object, and err the exception raised.
Symbol__init__(name, addressing, ip_base_address) ==
    IF Len(name) = 0 THEN [err |-> "InvalidSymbolName", obj |-> NoSymbol]
    ELSE The({
      IF scope = "None" THEN [err |-> "InvalidSymbolScope", obj |-> NoSymbol]
      ELSE IF scope \notin {"PRIVATE", "GLOBAL", "LOCAL"}
      THEN [err |-> scope, obj |-> NoSymbol]
      ELSE [err |-> "",
            obj |-> [name |-> name, clean_name |-> clean_name(name),
                     scope |-> scope, addressing |-> addressing,
                     base_address |-> IF addressing THEN ip_base_address
                                      ELSE NoData]]
      : scope \in {_scope_and_validate(name)}})

\* No Symbol constructed yet.
SymNew ==
    /\ symObj = NoSymbol
    /\ symCall = [name |-> NoText, addressing |-> FALSE]
    /\ symResult = "None"
    /\ symOps = 0

\* The names handed to the Symbol constructor.
SymNames ==
    { <<"l", "a", "b", "e", "l", ":">>, <<".", "p", "r", "i", "v", "a", "t", "e", ":">>, <<"g", "l", "o", "b", "a", "l", ":", ":">>, <<"L", "o", "c", "a", "l", "_", "2", ":">>, <<".", "n", "a", "m", "e", ":", ":">>, <<".", "n", "a", "m", "e">>,
      <<".", "l", "o", "c", "a", "l", "_", "g", "l", "o", "b", "a", "l", ":", ":">>,
      <<"n", "a", "m", "e">>, <<"a", ".", "b", ":">>, <<":", "x", ":">>, <<"x", ".">>, <<"x", ":", ":", ":">>, <<".", ".", "x", ":">>, <<"4", "2", "F", "u", "n", ":">>, <<":">>, NoText,
      <<"a", "_", "n", "a", "m", "e", "_", "o", "f", "_", "t", "w", "e", "n", "t", "y", "_", "s", "i", "x", "_", "c", "h", "a", "r", ":">> }

\* sym = Symbol(name, addressing): sym keeps its value when the
\* constructor raises.
NewSymbol ==
    /\ symOps < MaxSymOps
    /\ \E name \in SymNames, addressing \in BOOLEAN :
       \E made \in {Symbol__init__(name, addressing, ipSectionBase)} :
          /\ symObj' = IF made.err = "" THEN made.obj ELSE symObj
          /\ symCall' = [name |-> name, addressing |-> addressing]
          /\ symResult' = IF made.err = "" THEN "None" ELSE made.err
    /\ symOps' = symOps + 1
    /\ UNCHANGED <<secObj, secCall, secResult, secOps>>
    /\ UNCHANGED <<ipVars, appVars, mnVars, drvVars, valueVars>>

(***************************************************************************)
(* core/expression.py: the operators of Expression.                        *)
(***************************************************************************)
MaxExOps == 1

\* a & b for non-negative integers, bit by bit.
RECURSIVE BitAnd(_, _)
BitAnd(a, b) ==
    IF a <= 0 \/ b <= 0 THEN 0
    ELSE ((a % 2) * (b % 2)) + 2 * BitAnd(a \div 2, b \div 2)

\* a | b for non-negative integers.
BitOr(a, b) == a + b - BitAnd(a, b)

\* f"{value:{fmt}}" for the formats get_expr_components hands out.
FormatAs(value, fmt) ==
    CASE fmt = "02X" -> PyFormat(value, 2, 16)
      [] fmt = "04X" -> PyFormat(value, 4, 16)
      [] fmt = "02d" -> PyFormat(value, 2, 10)
      [] fmt = "08b" -> PyFormat(value, 8, 2)
      [] fmt = "08o" -> PyFormat(value, 8, 8)
      [] OTHER -> NoText

\* _Validator.test_other_numeric, for an operand that is an Expression: ""
\* when it passes, else the exception.
test_other_numeric(other) ==
    IF other.descriptor.base \notin NUMERIC_BASES THEN "ValueError" ELSE ""

\* Expression._new_expr_from_fmt
_new_expr_from_fmt(self, value) ==
    Expression("str", self.prefix \o FormatAs(value, self.fmt))

\* Expression.__add__
__add__(self, other) ==
    IF test_other_numeric(other) # "" THEN Raised(test_other_numeric(other))
    ELSE The({
      IF val > limits(self.descriptor).max - 1 THEN Raised("OverflowError")
      ELSE _new_expr_from_fmt(self, val)
      : val \in {integer_value(self) + integer_value(other)}})

\* Expression.__sub__
__sub__(self, other) ==
    IF test_other_numeric(other) # "" THEN Raised(test_other_numeric(other))
    ELSE The({
      IF val > 0 THEN _new_expr_from_fmt(self, val)
      ELSE Raised("ValueError")
      : val \in {integer_value(self) - integer_value(other)}})

\* Expression.__and__
__and__(self, other) ==
    IF test_other_numeric(other) # "" THEN Raised(test_other_numeric(other))
    ELSE _new_expr_from_fmt(self, BitAnd(integer_value(self), integer_value(other)))

\* Expression.__or__
__or__(self, other) ==
    IF test_other_numeric(other) # "" THEN Raised(test_other_numeric(other))
    ELSE _new_expr_from_fmt(self, BitOr(integer_value(self), integer_value(other)))

\* Expression.__xor__
__xor__(self, other) ==
    IF test_other_numeric(other) # "" THEN Raised(test_other_numeric(other))
    ELSE _new_expr_from_fmt(self, BitXor(integer_value(self), integer_value(other)))

ExCall(op, a, b) == [op |-> op, a |-> a, b |-> b]

\* No operator applied yet.
ExNew ==
    /\ exCall = ExCall("new", NoText, NoText)
    /\ exResult = Raised("")
    /\ exOps = 0

\* The receivers: 8-bit and 16-bit hexadecimal with each prefix, decimal,
\* binary and octal.
ExReceivers ==
    { <<"$", "1", "0">>, <<"$", "F", "0">>, <<"$", "F", "F">>, <<"$", "0", "1", "0", "0">>, <<"$", "F", "F", "F", "F">>, <<"$", "$", "0", "0", "F", "F">>, <<"0", "x", "1", "F">>, <<"0", "2", "5", "5">>,
      <<"0", "6", "5", "5", "3", "5">>, <<"%", "0", "0", "0", "1", "0", "0", "0", "1">>, <<"%", "1", "1", "1", "1", "1", "1", "1", "1">>, <<"&", "1", "7">>, <<"&", "1", "7", "7", "7", "7", "7">> }

\* The right operands; the last one is a string Expression.
ExOperands ==
    { <<"$", "0", "1">>, <<"$", "1", "0">>, <<"$", "F", "F">>, <<"$", "0", "F", "0", "F">>, <<"$", "0", "1", "0", "0">>, <<"$", "F", "F", "F", "F">>, <<"0", "0", "1">>, <<"0", "2", "5", "5">>,
      <<"%", "0", "0", "0", "1", "0", "0", "0", "1">>, <<"&", "1", "7">>, <<"\"", "A", "B", "\"">> }

nonExVars ==
    <<ipVars, appVars, mnVars, drvVars, secObj, secCall, secResult, secOps,
      symObj, symCall, symResult, symOps, stCall, stData, stResult, stOps>>

\* Expression(a) + Expression(b)
ExprAdd ==
    /\ exOps < MaxExOps
    /\ \E a \in ExReceivers, b \in ExOperands :
         /\ exCall' = ExCall("__add__", a, b)
         /\ exResult' = __add__(Expression("str", a), Expression("str", b))
    /\ exOps' = exOps + 1
    /\ UNCHANGED nonExVars

\* Expression(a) - Expression(b)
ExprSub ==
    /\ exOps < MaxExOps
    /\ \E a \in ExReceivers, b \in ExOperands :
         /\ exCall' = ExCall("__sub__", a, b)
         /\ exResult' = __sub__(Expression("str", a), Expression("str", b))
    /\ exOps' = exOps + 1
    /\ UNCHANGED nonExVars

\* Expression(a) & Expression(b)
ExprAnd ==
    /\ exOps < MaxExOps
    /\ \E a \in ExReceivers, b \in ExOperands :
         /\ exCall' = ExCall("__and__", a, b)
         /\ exResult' = __and__(Expression("str", a), Expression("str", b))
    /\ exOps' = exOps + 1
    /\ UNCHANGED nonExVars

\* Expression(a) | Expression(b)
ExprOr ==
    /\ exOps < MaxExOps
    /\ \E a \in ExReceivers, b \in ExOperands :
         /\ exCall' = ExCall("__or__", a, b)
         /\ exResult' = __or__(Expression("str", a), Expression("str", b))
    /\ exOps' = exOps + 1
    /\ UNCHANGED nonExVars

\* Expression(a) ^ Expression(b)
ExprXor ==
    /\ exOps < MaxExOps
    /\ \E a \in ExReceivers, b \in ExOperands :
         /\ exCall' = ExCall("__xor__", a, b)
         /\ exResult' = __xor__(Expression("str", a), Expression("str", b))
    /\ exOps' = exOps + 1
    /\ UNCHANGED nonExVars

(***************************************************************************)
(* directives/storage.py: StorageParser. _data is an attribute only the    *)
(* methods assign: a new parser has none.                                  *)
(***************************************************************************)
MaxStOps == 3

STORAGE_DIRECTIVES == {<<"D", "S">>, <<"D", "B">>, <<"D", "W">>, <<"D", "L">>}

\* EC().decimal_from_expression(text): the value of the expression written
\* in text.
decimal_from_expression(text) == integer_value(Expression("str", text))

\* StorageParser._to_byte_array: each byte taken is inserted in front of
\* those taken before.
RECURSIVE _to_byte_array_loop(_, _, _)
_to_byte_array_loop(vals, val, bits) ==
    IF bits > 0
    THEN _to_byte_array_loop(<<val % 256>> \o vals, val \div 256, bits - 8)
    ELSE vals

_to_byte_array(val, bits) == _to_byte_array_loop(<<>>, val, bits)

\* The attribute _data: has is FALSE while no method has assigned it.
Unassigned == [has |-> FALSE, data |-> <<>>]

SomeData(data) == [has |-> TRUE, data |-> data]

\* What a method leaves: the exception raised, the value returned and _data.
Parsed(err, returned, data) == [err |-> err, returned |-> returned, data |-> data]

\* StorageParser._to_space
_to_space(components, data) ==
    The({
      The({
        IF value >= 0 /\ value < 256
        THEN Parsed("", size, SomeData([i \in 1..size |-> value]))
        ELSE Parsed("StorageException", 0, data)
        : value \in {IF Len(components) >= 2
                     THEN decimal_from_expression(Strip(components[2], {" "}))
                     ELSE 0}})
      : size \in {IF Len(components) >= 1
                  THEN decimal_from_expression(Strip(components[1], {" "}))
                  ELSE 1}})

\* StorageParser._to_words, from item i on: appending to _data raises
\* AttributeError on a parser that has none.
RECURSIVE _to_words_loop(_, _, _)
_to_words_loop(data_list, i, data) ==
    IF i > Len(data_list) THEN Parsed("", Len(data_list), data)
    ELSE The({
      IF ~(65536 > num /\ num >= 0) THEN Parsed("StorageException", 0, data)
      ELSE IF ~data.has THEN Parsed("AttributeError", 0, data)
      ELSE _to_words_loop(data_list, i + 1,
                          SomeData(data.data \o _to_byte_array(num, 16)))
      : num \in {decimal_from_expression(Strip(data_list[i], {" "}))}})

_to_words(data_list, data) == _to_words_loop(data_list, 1, data)

StCall(op, tokens, components, val, bits) ==
    [op |-> op, tokens |-> tokens, components |-> components, val |-> val,
     bits |-> bits]

\* No parser constructed yet.
StNew ==
    /\ stCall = StCall("new", <<>>, <<>>, 0, 0)
    /\ stData = Unassigned
    /\ stResult = Parsed("", 0, Unassigned)
    /\ stOps = 0

\* The token groups handed to StorageParser, as the tokenizer writes the
\* lines DS $05 $01 $02 $03 / DW $FFD2 $1234 / LD A.
StLines ==
    { << Token("STORAGE_DIRECTIVE", <<"D", "S">>), Token("EXPRESSION", <<"$", "0", "5">>),
         Token("EXPRESSION", <<"$", "0", "1">>), Token("EXPRESSION", <<"$", "0", "2">>),
         Token("EXPRESSION", <<"$", "0", "3">>) >>,
      << Token("STORAGE_DIRECTIVE", <<"D", "W">>), Token("EXPRESSION", <<"$", "F", "F", "D", "2">>),
         Token("EXPRESSION", <<"$", "1", "2", "3", "4">>) >>,
      << Token("INSTRUCTION", <<"L", "D">>), Token("LITERAL", <<"A">>) >> }

\* The operands of DS lines: size alone, size and fill values, nothing.
StSpaces ==
    { <<>>, <<<<"$", "0", "5">>>>, <<<<"$", "0", "5">>, <<"$", "0", "1">>, <<"$", "0", "2">>, <<"$", "0", "3">>>>, <<<<"$", "0", "3">>, <<"$", "F", "F">>>>,
      <<<<"$", "0", "2">>, <<"$", "0", "1", "0", "0">>>>, <<<<"$", "0", "2">>, <<"$", "0", "1">>, <<"$", "0", "2">>, <<"$", "0", "3">>>>, <<<<" ", "$", "0", "4">>, <<"$", "A", "A", " ">>>> }

\* The operands of DW lines.
StWords ==
    { <<>>, <<<<"$", "F", "F", "D", "2">>, <<"$", "1", "2", "3", "4">>>>, <<<<"$", "4", "2">>>>, <<<<"$", "F", "F", "D", "2">>, <<"$", "1", "2", "3", "4">>, <<"$", "4", "2">>>>,
      <<<<"$", "0", "1", "0", "0">>>>, <<<<"0", "6", "5", "5", "3", "5">>, <<"%", "0", "0", "0", "1", "0", "0", "0", "1">>>> }

\* The values handed to _to_byte_array.
StValues == {0, 66, 256, 4660, 65490, 65535}

nonStVars ==
    <<ipVars, appVars, mnVars, drvVars, secObj, secCall, secResult, secOps,
      symObj, symCall, symResult, symOps, exCall, exResult, exOps>>

\* parser = StorageParser(tokens): the parser kept is replaced when the
\* constructor returns.
NewStorageParser ==
    /\ stOps < MaxStOps
    /\ \E tokens \in StLines :
         /\ stCall' = StCall("StorageParser", tokens, <<>>, 0, 0)
         /\ IF tokens[1].value \notin STORAGE_DIRECTIVES
            THEN /\ stResult' = Parsed("StorageValueError", 0, stData)
                 /\ stData' = stData
            ELSE /\ stResult' = Parsed("", 0, Unassigned)
                 /\ stData' = Unassigned
    /\ stOps' = stOps + 1
    /\ UNCHANGED nonStVars

\* parser._to_space(components)
ToSpace ==
    /\ stOps < MaxStOps
    /\ \E components \in StSpaces :
         \E done \in {_to_space(components, stData)} :
           /\ stCall' = StCall("_to_space", <<>>, components, 0, 0)
           /\ stResult' = done
           /\ stData' = done.data
    /\ stOps' = stOps + 1
    /\ UNCHANGED nonStVars

\* parser._to_words(data_list)
ToWords ==
    /\ stOps < MaxStOps
    /\ \E data_list \in StWords :
         \E done \in {_to_words(data_list, stData)} :
           /\ stCall' = StCall("_to_words", <<>>, data_list, 0, 0)
           /\ stResult' = done
           /\ stData' = done.data
    /\ stOps' = stOps + 1
    /\ UNCHANGED nonStVars

\* parser._to_byte_array(val, bits)
ToByteArray ==
    /\ stOps < MaxStOps
    /\ \E val \in StValues, bits \in {16, 32} :
         /\ stCall' = StCall("_to_byte_array", <<>>, <<>>, val, bits)
         /\ stResult' = Parsed("", _to_byte_array(val, bits), stData)
    /\ stOps' = stOps + 1
    /\ UNCHANGED stData
    /\ UNCHANGED nonStVars

(***************************************************************************)
(* The state after construction, and one specification per component.      *)
(***************************************************************************)
Init ==
    /\ IPNew
    /\ AppNew
    /\ MnNew
    /\ DrvNew
    /\ SecNew
    /\ SymNew
    /\ ExNew
    /\ StNew

NextIP ==
    \/ SetPointer
    \/ SetPointerArgumentRaises
    \/ MovePointerRelative
    \/ SetBaseAddress
    \/ MoveRelative

SpecIP == Init /\ [][NextIP]_vars

NextApp ==
    \/ CreateNewAddressEntry
    \/ AppendCode
    \/ AppReset

SpecApp == Init /\ [][NextApp]_vars

NextMnemonic ==
    \/ NewMnemonic
    \/ ResolveAgain
    \/ PushLabel
    \/ AddSymbol
    \/ SetSymbolBaseAddress
    \/ LabelsClear
    \/ SymbolsRemoveAll

SpecMnemonic == Init /\ [][NextMnemonic]_vars

NextDriver ==
    \/ AssembleLine
    \/ ProcessTokensAgain

SpecDriver == Init /\ [][NextDriver]_vars

NextSections ==
    \/ NewSection
    \/ SecPush
    \/ SecPop
    \/ SecReplace
    \/ SecClear

SpecSections == Init /\ [][NextSections]_vars

NextLabels ==
    \/ PushLabel
    \/ LabelsClear

SpecLabels == Init /\ [][NextLabels]_vars

NextSymbol ==
    \/ SetPointer
    \/ MovePointerRelative
    \/ NewSymbol

SpecSymbol == Init /\ [][NextSymbol]_vars

NextExpression ==
    \/ ExprAdd
    \/ ExprSub
    \/ ExprAnd
    \/ ExprOr
    \/ ExprXor

SpecExpression == Init /\ [][NextExpression]_vars

NextStorage ==
    \/ NewStorageParser
    \/ ToSpace
    \/ ToWords
    \/ ToByteArray

SpecStorage == Init /\ [][NextStorage]_vars

(***************************************************************************)
(* Claims about the InstructionPointer, checked under SpecIP.              *)
(***************************************************************************)

\* C1: after any sequence of InstructionPointer operations (setting the
\* pointer, move_pointer_relative, move_relative, setting the base), each
\* succeeding or failing, the current pointer is a valid Expression whose
\* integer value lies in 0..65535.
C1_PointerAlways16Bit ==
    /\ ipPointer.ok
    /\ integer_value(ipPointer) >= 0
    /\ integer_value(ipPointer) <= MAX_16BIT_VALUE

\* C1 witness: the pointer stands at 65535 after a relative move past the
\* top of the address space has failed.
C1_Witness ==
    /\ ipCall.op = "move_relative"
    /\ ipResult = "False"
    /\ integer_value(ipPointer) = MAX_16BIT_VALUE

\* C10: move_pointer_relative(d) with an integer d succeeds with
\* current = old + d when old + d lies in 0..65535, and fails otherwise;
\* when it fails, the pointer and the section base are unchanged.
C10_MoveRelativeInRangeOrFail ==
    [][(ipCall'.op = "move_pointer_relative" /\ ~ipCall'.isExpr) =>
         IF /\ integer_value(ipPointer) + ipCall'.n >= 0
            /\ integer_value(ipPointer) + ipCall'.n <= MAX_16BIT_VALUE
         THEN /\ ipResult' = "True"
              /\ integer_value(ipPointer') = integer_value(ipPointer) + ipCall'.n
         ELSE /\ ipResult' # "True"
              /\ ipPointer' = ipPointer
              /\ ipSectionBase' = ipSectionBase]_vars

\* C10 witness: from 3857 (0 + 4352 - 495) a move that would leave the
\* address space has raised ValueError and the pointer still reads 3857.
C10_Witness ==
    /\ ipCall.op = "move_pointer_relative"
    /\ ipResult = "ValueError"
    /\ integer_value(ipPointer) = 4352 - 495

(***************************************************************************)
(* Claims about the Application image store, checked under SpecApp.        *)
(***************************************************************************)

\* The number a segment's address tag or the current address denotes:
\* "$" and hexadecimal digits, or "0" and decimal digits; -1 otherwise.
AddressRead(text) ==
    IF Len(text) < 2 THEN -1
    ELSE IF text[1] = "$" /\ \A i \in 2..Len(text) : DigitValue(text[i]) < 16
    THEN PyInt(SubSeq(text, 2, Len(text)), 16)
    ELSE IF text[1] = "0" /\ \A i \in 2..Len(text) : DigitValue(text[i]) < 10
    THEN PyInt(SubSeq(text, 2, Len(text)), 10)
    ELSE -1

CurrentAddress(address) ==
    IF address.pytype = "int" THEN address.n ELSE AddressRead(address.text)

\* C2: append_code(bytes) returns normally; it extends the most recent
\* segment with exactly the given bytes or, when there is no segment,
\* creates one based at the current address that holds them; it advances
\* the current address by len(bytes) and leaves every earlier segment
\* unchanged. This is to hold in every reachable state, a newly created
\* Application included.
C2_AppendExtendsAndAdvances ==
    [][appCall'.op = "append_code" =>
         /\ appResult' = "True"
         /\ IF Len(appData) = 0
            THEN /\ Len(appData') = 1
                 /\ appData'[1].code = appCall'.code
                 /\ AddressRead(appData'[1].address) = CurrentAddress(appAddress)
            ELSE /\ Len(appData') = Len(appData)
                 /\ appData'[Len(appData)].code
                      = appData[Len(appData)].code \o appCall'.code
                 /\ appData'[Len(appData)].address = appData[Len(appData)].address
                 /\ \A i \in 1..(Len(appData) - 1) : appData'[i] = appData[i]
         /\ CurrentAddress(appAddress')
              = CurrentAddress(appAddress) + Len(appCall'.code)]_vars

(***************************************************************************)
(* Claims about the Mnemonic resolver, checked under SpecMnemonic.         *)
(***************************************************************************)
\* The catalog's entry for the opcode of a detail.
CatalogOf(detail) ==
    DictGet(LR35902Data, Lower(detail.addr.prefix \o detail.addr.word))

\* An operand slot of the catalog that holds a placeholder: d8, d16, a8,
\* a16 or r8, bare, in parentheses or in the composite sp+r8.
IsPlaceholderSlot(slot) ==
    \E i \in 1..Len(placeholders) : Contains(slot, placeholders[i])

\* The value written in an operand: the Expression that starts at its "$".
OperandValue(operand) ==
    integer_value(
      Expression("str",
        Strip(SubSeq(operand,
                     CHOOSE i \in 1..Len(operand) :
                       /\ operand[i] = "$"
                       /\ \A j \in 1..(i - 1) : operand[j] # "$",
                     Len(operand)),
              {"(", ")"})))

\* The n low bytes of a value, low byte first.
LittleEndian(v, n) == [i \in 1..n |-> (v \div (256 ^ (i - 1))) % 256]

\* C7: whenever a resolution succeeds for an instruction whose operand slot
\* 1 or 2 is a placeholder (d8, d16, a8, a16, r8, also as (a8), (a16) and
\* sp+r8), the code has exactly detail.length bytes: the opcode byte, then
\* the little-endian bytes of the immediate operand.
C7_CodeIsOpcodeThenImmediate ==
    (/\ mnCall.op \in {"Mnemonic", "resolve_again"}
     /\ mnResult = "detail"
     /\ \/ IsPlaceholderSlot(CatalogOf(mnDetail).operand1)
        \/ IsPlaceholderSlot(CatalogOf(mnDetail).operand2))
    => /\ Len(mnDetail.code) = mnDetail.length
       /\ mnDetail.code
            = <<integer_value(mnDetail.addr)>>
              \o LittleEndian(
                   OperandValue(IF IsPlaceholderSlot(CatalogOf(mnDetail).operand1)
                                THEN mnDetail.operand1 ELSE mnDetail.operand2),
                   mnDetail.length - 1)

\* The value a token of the kept Mnemonic refers to by name: found is FALSE
\* when the token names neither a label nor a symbol of the stores.
Referenced(token) ==
    IF LabelsFind(labels, token.value) # 0
    THEN [found |-> TRUE, value |-> labels[LabelsFind(labels, token.value)].value]
    ELSE IF SymbolsHas(symbols, token.value)
    THEN [found |-> TRUE, value |-> SymbolsFind(symbols, token.value).base_address]
    ELSE [found |-> FALSE, value |-> NoData]

C9_TreeIsAsBuilt == lr35902 = BuiltTree

\* LD HL, SP+OFFSET resolved again through the label: the walk wrote the
\* rewritten operand into the node of sp+r8 and took it out again.
C9_Witness ==
    /\ mnCall.op = "resolve_again"
    /\ mnResult = "detail"
    /\ mnDetail.operand2 = <<"s", "p", "+", "$", "7", "F">>
    /\ lr35902 = BuiltTree

(***************************************************************************)
(* Claims about the AssemblerUtils driver, checked under SpecDriver.       *)
(***************************************************************************)
\* A step that is one call of process_tokens: on drvLast', the group it
\* was called with.
CalledProcessTokens == drvOps' # drvOps \/ drvDepth' # drvDepth

\* C3: when the driver processes a SECTION directive line, it pushes the
\* parsed Section into the SectionStore, starts a new empty Image segment
\* at the Section's starting address, and sets the InstructionPointer base
\* and the current pointer to that starting address.
C3_SectionLineSetsStoreImageAndPointer ==
    [][ (/\ CalledProcessTokens
         /\ drvLast'[1].type = "DIRECTIVE"
         /\ drvLast'[1].value = <<"S", "E", "C", "T", "I", "O", "N">>
         /\ Section(drvLast').err = ""
         /\ starting_address(Section(drvLast')).ok)
        => \E start \in {integer_value(starting_address(Section(drvLast')))} :
             /\ \E i \in 1..Len(sections') :
                  sections'[i].label = Section(drvLast').label
             /\ appData' = Append(appData,
                                  _Entry(<<"$">> \o PyFormat(start, 4, BASE_WORD), <<>>))
             /\ integer_value(ipSectionBase') = start
             /\ integer_value(ipPointer') = start ]_vars

\* C4: the driver never silently drops an instruction: for every token
\* group whose first token is an Instruction that the Mnemonic resolver
\* can resolve, the mnemonic alone included, process_tokens appends exactly
\* that instruction's code bytes to the Image.
C4_InstructionCodeIsAppended ==
    [][ (/\ CalledProcessTokens
         /\ drvLast'[1].type = "INSTRUCTION"
         /\ Mnemonic(drvLast', BuiltTree).err = ""
         /\ Mnemonic(drvLast', BuiltTree).detail.some)
        => appData' = append_code(appData, appAddress,
                                  Mnemonic(drvLast', BuiltTree).detail.code).data
      ]_vars

\* The line LABEL: LD A, $10.
LabelThenLoad ==
    << Token("SYMBOL", <<"L", "A", "B", "E", "L", ":">>), Token("INSTRUCTION", <<"L", "D">>),
       Token("LITERAL", <<"A">>), Token("EXPRESSION", <<"$", "1", "0">>) >>

\* C5: process_tokens terminates on every token group: each handler
\* consumes at least the first token, the driver continues only on a
\* strictly shorter tail of the group until the line is empty, and
\* LABEL: LD A, $10 is handled as Symbol then Instruction, each once.
C5_DriverContinuesOnShorterTail ==
    [][ /\ drvResult' # "RecursionError"
        /\ CalledProcessTokens =>
             /\ drvResult' = "pending" =>
                  /\ Len(drvGroup') < Len(drvLast')
                  /\ drvGroup' = SubSeq(drvLast',
                                        Len(drvLast') - Len(drvGroup') + 1,
                                        Len(drvLast'))
             /\ (drvLine' = LabelThenLoad /\ drvResult' # "pending") =>
                  drvHandled' = <<"SYMBOL", "INSTRUCTION">> ]_vars

\* A DEF line with fewer than four tokens, or with an operator other than
\* =, EQU and EQUS.
MalformedDef(token_group) ==
    /\ token_group[1].type = "DIRECTIVE"
    /\ token_group[1].value = <<"D", "E", "F">>
    /\ \/ Len(token_group) < 4
       \/ token_group[3].value \notin {<<"=">>, <<"E", "Q", "U">>, <<"E", "Q", "U", "S">>}

\* C6: a malformed DEF line is surfaced as an error and ends the
\* processing of the line: the driver does not work on any of its tokens
\* again, and the LabelStore is left unchanged.
C6_MalformedDefEndsTheLine ==
    [][ (CalledProcessTokens /\ MalformedDef(drvLast'))
        => /\ drvResult' \in {"DefineSymbolError", "DefineAssignmentError"}
           /\ drvGroup' = <<>>
           /\ labels' = labels ]_vars


\* C16: after the driver processes a well-formed line
\* DEF name (= | EQU | EQUS) expression, Labels().find(name) returns a
\* label whose value has the expression's integer value.
C16_DefLineStoresLabel ==
    [][(/\ CalledProcessTokens
        /\ Define(drvLast') = ""
        /\ drvLast'[4].type = "EXPRESSION"
        /\ drvLast'[4].data.ok) =>
         /\ LabelsFind(labels', drvLast'[2].value) # 0
         /\ integer_value(labels'[LabelsFind(labels', drvLast'[2].value)].value)
              = integer_value(drvLast'[4].data)]_vars
(***************************************************************************)
(* Further claims about the InstructionPointer, checked under SpecIP.      *)
(***************************************************************************)

\* C11: after an assignment to base_address of a 16-bit Expression e, the
\* section base and the current pointer both have e's integer value, so
\* the offset of the pointer from the base is 0.
C11_SetBaseAssignsBaseAndPointer ==
    [][(/\ ipOps' # ipOps
        /\ ipCall'.op = "base_address"
        /\ ipCall'.isExpr
        /\ limits(Expression("str", ipCall'.text).descriptor).max
              >= MAX_16BIT_VALUE) =>
         /\ integer_value(ipSectionBase') = ipCall'.n
         /\ integer_value(ipPointer') = ipCall'.n
         /\ to_decimal_int(ipPointer') - to_decimal_int(ipSectionBase') = 0]_vars

\* C12: move_relative(b) with an 8-bit Expression b moves the pointer by
\* b when bit 7 of b is clear and back by 256 - b when it is set; the move
\* is made when the destination lies in 0..65535 and refused otherwise.
C12_MoveRelativeIsTwosComplement ==
    [][(/\ ipOps' # ipOps
        /\ ipCall'.op = "move_relative"
        /\ ipCall'.isExpr
        /\ limits(Expression("str", ipCall'.text).descriptor).max
              <= MAX_8BIT_VALUE + 1) =>
         \E b \in {ipCall'.n} :
         \E dest \in {integer_value(ipPointer)
                        + (IF b >= 128 THEN b - 256 ELSE b)} :
            IF dest >= 0 /\ dest <= MAX_16BIT_VALUE
            THEN ipResult' = "True" /\ integer_value(ipPointer') = dest
            ELSE ipResult' = "False" /\ ipPointer' = ipPointer]_vars

\* C12 witness: from 0xFFD2 the byte 0xFB has moved the pointer to 0xFFCD.
C12_Witness ==
    /\ ipCall.op = "move_relative"
    /\ ipCall.n = 251
    /\ ipResult = "True"
    /\ integer_value(ipPointer) = 65485

(***************************************************************************)
(* Claims about the Sections store, checked under SpecSections.            *)
(***************************************************************************)
\* The positions of the store whose section has the label, ignoring case.
LabelledAs(store, label) ==
    {i \in 1..Len(store) : Upper(store[i].label) = Upper(label)}

\* A step that is a call of the operation op of the Sections store.
CalledSections(op) == secOps' # secOps /\ secCall'.op = op

\* C13: the store never holds two sections whose labels are equal ignoring
\* case; a push with replace false of a label already present, at any
\* position, returns False and leaves the store unchanged, and with
\* replace true it leaves exactly one section of that label.
C13_PushKeepsLabelsUnique ==
    [][/\ \A i, j \in 1..Len(sections') :
            i # j => Upper(sections'[i].label) # Upper(sections'[j].label)
       /\ (/\ CalledSections("push")
           /\ secCall'.arg.err = ""
           /\ LabelledAs(sections, secCall'.name) # {}) =>
             IF secCall'.replace
             THEN Cardinality(LabelledAs(sections', secCall'.name)) = 1
             ELSE secResult' = "False" /\ sections' = sections]_vars

NamedAs(store, name) ==
    {i \in 1..Len(store) : Lower(store[i].name) = Lower(name)}

\* C15: push(entry, replace) inserts the entry and returns True when no
\* label of that name, ignoring case, is stored; on a collision it
\* overwrites the stored value and returns True when replace is true, and
\* returns False and leaves the store unchanged otherwise. The store holds
\* at most one label per name, and find(name) gives the value of the last
\* push of that name that returned True.
C15_PushInsertsOrReplaces ==
    [][(mnOps' # mnOps /\ mnCall'.op = "push") =>
         \E entry \in {Label(mnCall'.name, Expression("str", mnCall'.value))} :
           /\ IF NamedAs(labels, entry.name) = {}
              THEN /\ mnResult' = "True"
                   /\ labels' = Append(labels, entry)
              ELSE IF mnCall'.replace
              THEN /\ mnResult' = "True"
                   /\ \E k \in NamedAs(labels, entry.name) :
                        labels' = [labels EXCEPT ![k].value = entry.value]
              ELSE /\ mnResult' = "False"
                   /\ labels' = labels
           /\ \A i, j \in 1..Len(labels') :
                i # j => Lower(labels'[i].name) # Lower(labels'[j].name)
           /\ mnResult' = "True" =>
                /\ LabelsFind(labels', entry.name) # 0
                /\ labels'[LabelsFind(labels', entry.name)].value = entry.value
       ]_vars

\* C15 witness: the label HIGH holds the value $12 that a push of the
\* name high with replace true gave it.
C15_Witness ==
    /\ mnCall.op = "push"
    /\ mnCall.name = <<"h", "i", "g", "h">>
    /\ mnCall.replace
    /\ mnResult = "True"
    /\ Len(labels) = 1
    /\ labels[1].name = <<"H", "I", "G", "H">>
    /\ integer_value(labels[1].value) = 18

(***************************************************************************)
(* Claims about Section construction, checked under SpecSections on the    *)
(* Section constructed last.                                               *)
(***************************************************************************)
\* A Section was constructed, and its memory block is one of SectionType.
SectionOfKnownBlock ==
    /\ secObj.err = ""
    /\ secObj.block_name # NoText
    /\ DictHas(_mem_blocks, Upper(secObj.block_name))

\* The start of the memory block of the Section constructed last.
BlockStart == DictGet(_mem_blocks, Upper(secObj.block_name))

\* The offset of the Section constructed last, 0 when none is given.
OffsetOrZero ==
    IF secObj.block_offset # NoText /\ Expression("str", secObj.block_offset).ok
    THEN integer_value(Expression("str", secObj.block_offset))
    ELSE 0

\* C17: for every successfully constructed Section, starting_address is
\* the start of its memory block's address range plus its offset, 0 when
\* no offset is given.
C17_StartingAddressIsStartPlusOffset ==
    SectionOfKnownBlock =>
      /\ starting_address(secObj).ok
      /\ integer_value(starting_address(secObj)) = BlockStart + OffsetOrZero

\* C18: a SECTION whose offset places the starting address outside its
\* memory block is rejected, so the starting address of every constructed
\* Section lies inside its block's address range and within 0..65535.
C18_OffsetWithinBlock ==
    SectionOfKnownBlock =>
      /\ BlockStart + OffsetOrZero
           <= DictGet(_mem_block_ends, Upper(secObj.block_name))
      /\ BlockStart + OffsetOrZero >= BlockStart
      /\ BlockStart + OffsetOrZero <= MAX_16BIT_VALUE

(***************************************************************************)
(* Claims about the Symbol constructor, checked under SpecSymbol.          *)
(***************************************************************************)
\* C19: an addressing Symbol has as its address the value the current
\* instruction pointer has when the Symbol is created, also when the
\* pointer has moved away from the section base.
C19_SymbolAddressIsCurrentPointer ==
    [][(symOps' # symOps /\ symResult' = "None" /\ symObj'.addressing) =>
         /\ symObj'.base_address.ok
         /\ integer_value(symObj'.base_address) = integer_value(ipPointer)
      ]_vars

\* C20: the scope of every Symbol constructed is Private exactly when its
\* name starts with a stop, Global exactly when the name ends with two
\* colons, and Local exactly when it ends with one colon only and does not
\* start with a stop; it is one of the three.
C20_ScopeFollowsDecorators ==
    symObj # NoSymbol =>
      /\ symObj.scope \in {"PRIVATE", "GLOBAL", "LOCAL"}
      /\ symObj.scope = "PRIVATE" <=> StartsWith(symObj.name, <<".">>)
      /\ symObj.scope = "GLOBAL" <=> EndsWith(symObj.name, <<":", ":">>)
      /\ symObj.scope = "LOCAL" <=>
           /\ EndsWith(symObj.name, <<":">>)
           /\ ~EndsWith(symObj.name, <<":", ":">>)
           /\ ~StartsWith(symObj.name, <<".">>)

\* C21: constructing a Symbol whose name has both a leading stop and two
\* trailing colons fails with InvalidSymbolScope.
C21_StopAndTwoColonsIsRefused ==
    [][(/\ symOps' # symOps
        /\ StartsWith(symCall'.name, <<".">>)
        /\ EndsWith(symCall'.name, <<":", ":">>)) =>
         /\ symResult' = "InvalidSymbolScope"
         /\ symObj' = symObj]_vars

\* C22: a store's reset (Application.reset, Sections.clear, Labels.clear,
\* Symbols.remove_all) leaves the store as a newly created one is: nothing
\* stored, the address a new Application has, and the next operation with
\* the outcome it has on a new store.
C22_ResetReturnsToInitialState ==
    [][/\ appCall'.op = "reset" /\ appOps' # appOps =>
            /\ appData' = <<>>
            /\ appAddress' = PyStr(<<"$", "0", "0", "0", "0">>)
            /\ \A code \in AppCodes :
                 append_code(appData', appAddress', code)
                   = append_code(<<>>, PyStr(<<"$", "0", "0", "0", "0">>), code)
       /\ secCall'.op = "clear" /\ secOps' # secOps => sections' = <<>>
       /\ mnCall'.op = "clear" /\ mnOps' # mnOps => labels' = <<>>
       /\ mnCall'.op = "remove_all" /\ mnOps' # mnOps => symbols' = <<>>]_vars

(***************************************************************************)
(* Claims about the Expression operators, checked under SpecExpression.    *)
(***************************************************************************)

\* The receiver and the right operand of the operator applied last.
Receiver == Expression("str", exCall.a)

Operand == Expression("str", exCall.b)

\* The integer the operator applied last is to produce.
Expected ==
    CASE exCall.op = "__add__" -> integer_value(Receiver) + integer_value(Operand)
      [] exCall.op = "__sub__" -> integer_value(Receiver) - integer_value(Operand)
      [] exCall.op = "__and__" ->
           BitAnd(integer_value(Receiver), integer_value(Operand))
      [] exCall.op = "__or__" ->
           BitOr(integer_value(Receiver), integer_value(Operand))
      [] exCall.op = "__xor__" ->
           BitXor(integer_value(Receiver), integer_value(Operand))
      [] OTHER -> -1

\* The result is an Expression of the receiver's prefix and width with the
\* value expected.
ResultInReceiversFormat ==
    /\ exResult.ok
    /\ exResult.prefix = Receiver.prefix
    /\ exResult.descriptor = Receiver.descriptor
    /\ integer_value(exResult) = Expected

\* C23: a + b, a & b, a | b and a ^ b of numeric Expressions give an
\* Expression of a's prefix and width when the result fits that width, and
\* fail when it does not.
C23_OperatorsKeepReceiversWidth ==
    (/\ exCall.op \in {"__add__", "__and__", "__or__", "__xor__"}
     /\ Operand.descriptor.base \in NUMERIC_BASES) =>
       IF Expected <= limits(Receiver.descriptor).max - 1
       THEN ResultInReceiversFormat
       ELSE ~exResult.ok

\* C24: a - b of numeric Expressions fails exactly when the result is
\* negative; otherwise, a = b included, it is an Expression in a's format
\* of value a - b.
C24_SubtractionFailsOnlyBelowZero ==
    (/\ exCall.op = "__sub__"
     /\ Operand.descriptor.base \in NUMERIC_BASES) =>
       IF Expected >= 0
       THEN ResultInReceiversFormat
       ELSE ~exResult.ok

(***************************************************************************)
(* Claims about StorageParser, checked under SpecStorage.                  *)
(***************************************************************************)

\* The value an operand of a storage line denotes.
StorageValue(item) == decimal_from_expression(Strip(item, {" "}))

\* The bytes a parser holds: none while _data is unassigned.
Held(data) == IF data.has THEN data.data ELSE <<>>

\* Two bytes per value, the low byte first, in the order of the operands.
RECURSIVE LowByteFirst(_)
LowByteFirst(items) ==
    IF Len(items) = 0 THEN <<>>
    ELSE <<StorageValue(items[1]) % 256, StorageValue(items[1]) \div 256>>
         \o LowByteFirst(Tail(items))

\* C25: DW emits two bytes per value, the low byte first, in operand
\* order: n values give 2n bytes, an 8-bit value v gives v and then 0.
C25_WordsAreEmittedLowByteFirst ==
    [][(stCall'.op = "_to_words" /\ stOps' # stOps) =>
         /\ stResult'.err = ""
         /\ Held(stData') = Held(stData) \o LowByteFirst(stCall'.components)]_vars

\* size bytes, the fill values taken modulo 256 and repeated in turn; all
\* zero when there is no fill value.
Tiled(size, fills) ==
    [i \in 1..size |->
       IF Len(fills) = 0 THEN 0
       ELSE StorageValue(fills[((i - 1) % Len(fills)) + 1]) % 256]

\* C26: DS size v1 .. vN emits exactly size bytes: zeros when no fill
\* value is given, else byte i (from 0) is v[(i mod N) + 1] mod 256, also
\* when N exceeds size.
C26_SpaceIsTiledWithFillValues ==
    [][(/\ stCall'.op = "_to_space"
        /\ stOps' # stOps
        /\ Len(stCall'.components) >= 1) =>
         /\ stResult'.err = ""
         /\ Held(stData') = Tiled(StorageValue(stCall'.components[1]),
                                  Tail(stCall'.components))]_vars

(***************************************************************************)
(* Further claims about the driver, checked under SpecDriver.              *)
(***************************************************************************)

\* The address at which the next byte appended to the image lands: the
\* base of the last segment plus the number of bytes it holds.
NextByteAddress(data) ==
    AddressRead(data[Len(data)].address) + Len(data[Len(data)].code)

\* C27: within a section, a symbol is registered at the address where the
\* next emitted byte will land: the section's start plus the bytes emitted
\* since, which for a symbol in front of an instruction is the address of
\* that instruction's first byte.
C27_SymbolGetsNextByteAddress ==
    [][(/\ CalledProcessTokens
        /\ Len(drvLast') > 0
        /\ drvLast'[1].type = "SYMBOL"
        /\ Len(sections) > 0
        /\ Len(appData) > 0) =>
          /\ SymbolsHas(symbols', drvLast'[1].value)
          /\ integer_value(SymbolsFind(symbols', drvLast'[1].value).base_address)
               = NextByteAddress(appData)]_vars

(***************************************************************************)
(* Further claims about the resolver, checked under SpecMnemonic.          *)
(***************************************************************************)

\* The number of operands of a catalog entry.
OperandCount(entry) ==
    IF entry.operand1 = NoText THEN 0 ELSE IF entry.operand2 = NoText THEN 1 ELSE 2

\* The atoms of the group run out before a terminal node: the catalog
\* knows the mnemonic, and only with more operands than the group has.
TooFewOperands(tokens) ==
    /\ listify(tokens).err = ""
    /\ \E i \in 1..Len(LR35902Data) :
         LR35902Data[i][2].mnemonic = listify(tokens).elements[1]
    /\ \A i \in 1..Len(LR35902Data) :
         LR35902Data[i][2].mnemonic = listify(tokens).elements[1] =>
           OperandCount(LR35902Data[i][2]) > Len(listify(tokens).elements) - 1

\* An operand of the group names a symbol the store does not hold, or one
\* of the labels of MnLabels while the label store has none of that name.
UndefinedReference(tokens, labelStore, symbolStore) ==
    \E i \in 2..Len(tokens) :
      \/ tokens[i].type = "SYMBOL" /\ ~SymbolsHas(symbolStore, tokens[i].value)
      \/ /\ tokens[i].type = "LITERAL"
         /\ \E nv \in MnLabels : Lower(nv[1]) = Lower(tokens[i].value)
         /\ LabelsFind(labelStore, tokens[i].value) = 0

\* C28: resolving a group that starts with an Instruction token and cannot
\* be decoded, for too few operands or for a label or symbol that is not
\* defined, raises nothing: instruction_detail is None.
C28_UndecodableResolvesToNone ==
    [][(/\ mnCall'.op \in {"Mnemonic", "resolve_again"}
        /\ mnOps' # mnOps
        /\ mnCall'.tokens[1].type = "INSTRUCTION"
        /\ \/ TooFewOperands(mnCall'.tokens)
           \/ UndefinedReference(mnCall'.tokens, labels, symbols)) =>
          mnResult' = "None"]_vars

\* The texts of a sequence, joined.
RECURSIVE Joined(_)
Joined(texts) == IF Len(texts) = 0 THEN NoText ELSE texts[1] \o Joined(Tail(texts))

\* The case-folded values of the tokens from position i to position j.
FoldedValues(tokens, i, j) == [k \in 1..(j - i + 1) |-> Lower(tokens[i + k - 1].value)]

\* C29: listify keeps every token once and in order: the atoms joined are
\* the case-folded token values joined, the first atom is the mnemonic,
\* the tokens from ( to ) are within one atom, parentheses included, and a
\* + is within one atom with both its neighbours, which special records,
\* also inside parentheses.
C29_ListifyKeepsEveryToken ==
    (/\ mnCall.op \in {"Mnemonic", "resolve_again"}
     /\ mnCall.tokens[1].type = "INSTRUCTION") =>
      \E listed \in {listify(mnCall.tokens)} :
        /\ listed.err = ""
        /\ Joined(listed.elements)
             = Joined(FoldedValues(mnCall.tokens, 1, Len(mnCall.tokens)))
        /\ listed.elements[1] = Lower(mnCall.tokens[1].value)
        /\ \A i, j \in 1..Len(mnCall.tokens) :
             (/\ i < j
              /\ mnCall.tokens[i].value = <<"(">>
              /\ mnCall.tokens[j].value = <<")">>) =>
               \E e \in 1..Len(listed.elements) :
                 Contains(listed.elements[e],
                          Joined(FoldedValues(mnCall.tokens, i, j)))
        /\ \A k \in 2..(Len(mnCall.tokens) - 1) :
             mnCall.tokens[k].value = <<"+">> =>
               /\ \E e \in 1..Len(listed.elements) :
                    Contains(listed.elements[e],
                             Joined(FoldedValues(mnCall.tokens, k - 1, k + 1)))
               /\ \E p \in 1..Len(listed.special) :
                    Contains(listed.special[p][1],
                             Joined(FoldedValues(mnCall.tokens, k - 1, k + 1)))

(***************************************************************************)
(* A further claim about the Application image store, checked under        *)
(* SpecApp.                                                                *)
(***************************************************************************)

\* C30: on an Image that was reset, whose address is an integer from then
\* on, after any sequence of create_new_address_entry and append_code the
\* current address is the base address of the last segment plus the
\* number of bytes that segment holds.
C30_AddressIsLastBasePlusLength ==
    (appAddress.pytype = "int" /\ Len(appData) > 0) =>
      appAddress.n = NextByteAddress(appData)

\* After reset, append_code, create_new_address_entry and append_code: a
\* segment tagged with the address 0 of the reset store, then a segment at
\* $C000 that holds bytes.
C30_Witness ==
    /\ Len(appData) = 2
    /\ appData[1].address = <<"0", "0">>
    /\ Len(appData[1].code) > 0
    /\ appData[2].address = <<"$", "C", "0", "0", "0">>
    /\ Len(appData[2].code) > 0
    /\ appAddress.pytype = "int"
    /\ appAddress.n = 49152 + Len(appData[2].code)

=============================================================================
